---- MODULE Spec2Model ----
(***************************************************************************)
(* ContexGo chronicle gate (src/contexgo/chronicle/assembly/               *)
(* chronicle_gate.py): the asyncio ingestion queue, the batching writer    *)
(* loop, the per-month SQLite partitions and the read paths.               *)
(*                                                                         *)
(* Conventions of the model                                                *)
(*  - A Python value is a record [t, s, n]: t is the type tag, s the       *)
(*    string payload, n the numeric payload.  A dict key that is missing   *)
(*    is the value Absent, so that `"id" in payload` and                   *)
(*    `payload.get("id")` can be told apart.                               *)
(*  - Timestamps are whole epoch seconds; datetime.fromtimestamp is the    *)
(*    proleptic Gregorian calendar in a UTC local zone.                    *)
(*  - A partition path <root>/<YYYY>/<YYYY><MM>.db is the record           *)
(*    [year, month].                                                       *)
(*  - _uuid7() is a fresh value on every call (a counter).                 *)
(*  - Envelopes are dict objects owned by the caller: the gate mutates     *)
(*    them in place and the queue holds references, so the heap `envs`     *)
(*    maps an object handle to the dict's current content.                 *)
(***************************************************************************)
EXTENDS Integers, Sequences, FiniteSets, TLC

(***************************************************************************)
(* Bounds                                                                  *)
(***************************************************************************)
\* total number of envelopes the producers enqueue in one run
MaxAppends == 3
\* longest list handed to one append_many call
MaxMany == 2
\* ChronicleGate(max_batch_size=...) of the modelled gate
MaxBatchSize == 2
\* number of time.time() readings the clock steps through
MaxClock == 2

(***************************************************************************)
(* Python values                                                           *)
(***************************************************************************)
Absent == [t |-> "absent", s |-> "", n |-> 0]
PyNone == [t |-> "none", s |-> "", n |-> 0]
PyNum(k) == [t |-> "num", s |-> "", n |-> k]
PyStr(str) == [t |-> "str", s |-> str, n |-> 0]
\* the string returned by the k-th call of _uuid7()
PyUuid(k) == [t |-> "str", s |-> "uuid7", n |-> k]
\* a dict whose json.dumps text is js and whose len() is k
PyDict(js, k) == [t |-> "dict", s |-> js, n |-> k]
\* a bytes / bytearray object with content b and len() k
PyBytes(b, k) == [t |-> "bytes", s |-> b, n |-> k]
\* the list [1] * k: a list with k elements
PyList(k) == [t |-> "list", s |-> "", n |-> k]

\* bool(v) of Python
Truthy(v) ==
    CASE v.t = "absent" -> FALSE
      [] v.t = "none" -> FALSE
      [] v.t = "num" -> v.n # 0
      [] v.t = "str" -> v.s # ""
      [] v.t = "dict" -> v.n > 0
      [] v.t = "bytes" -> v.n > 0
      [] v.t = "list" -> v.n > 0
      [] OTHER -> TRUE

\* a or b
PyOr(a, b) == IF Truthy(a) THEN a ELSE b

\* payload.get(key)
Get(p, key) == IF p[key].t = "absent" THEN PyNone ELSE p[key]

\* key in payload
Has(p, key) == p[key].t # "absent"

PayloadKeys == {"id", "object_id", "timestamp", "create_time", "source",
                "context_type", "content", "content_text", "blob_bytes",
                "content_bytes", "blob_ext", "content_ext"}

EmptyPayload == [k \in PayloadKeys |-> Absent]

\* the dict literal {k1: v1, ...} given as a set of <<key, value>> pairs
Dict(kvs) ==
    [k \in PayloadKeys |->
        IF \E kv \in kvs : kv[1] = k
        THEN (CHOOSE kv \in kvs : kv[1] = k)[2]
        ELSE Absent]

\* str(d) of one decimal digit
DigitStr(k) ==
    CASE k = 0 -> "0" [] k = 1 -> "1" [] k = 2 -> "2" [] k = 3 -> "3"
      [] k = 4 -> "4" [] k = 5 -> "5" [] k = 6 -> "6" [] k = 7 -> "7"
      [] k = 8 -> "8" [] k = 9 -> "9" [] OTHER -> "<num>"

\* str(n) of an int n >= 0
RECURSIVE NatStr(_)
NatStr(k) ==
    IF k < 10 THEN DigitStr(k) ELSE NatStr(k \div 10) \o DigitStr(k % 10)

\* str(n) of an int
IntStr(k) == IF k < 0 THEN "-" \o NatStr(0 - k) ELSE NatStr(k)

\* json.dumps([1] * k): "[]", "[1]", "[1, 1]", ...
RECURSIVE OnesJson(_)
OnesJson(k) == IF k = 1 THEN "1" ELSE OnesJson(k - 1) \o ", 1"

ListJson(k) == IF k = 0 THEN "[]" ELSE "[" \o OnesJson(k) \o "]"

\* str(d) of the dict whose json.dumps text is js: repr quotes the keys
\* with ' where JSON uses "
DictRepr(js) == IF js = "{\"k\": 1}" THEN "{'k': 1}" ELSE js

\* str(v); str(b"1") is "b'1'", and str of a list of ints is its JSON text
StrOf(v) ==
    CASE v.t = "str" -> v
      [] v.t = "num" -> PyStr(IntStr(v.n))
      [] v.t = "none" -> PyStr("None")
      [] v.t = "absent" -> PyStr("None")
      [] v.t = "bytes" -> PyStr("b'" \o v.s \o "'")
      [] v.t = "list" -> PyStr(ListJson(v.n))
      [] v.t = "dict" -> PyStr(DictRepr(v.s))
      [] OTHER -> PyStr(v.s)

(***************************************************************************)
(* Calendar: datetime.fromtimestamp / datetime(y, m, 1).timestamp()        *)
(***************************************************************************)
\* days since 1970-01-01 of the civil date y-m-d
DaysFromCivil(y, m, d) ==
    LET yy == IF m <= 2 THEN y - 1 ELSE y
        era == yy \div 400
        yoe == yy - era * 400
        mp == IF m > 2 THEN m - 3 ELSE m + 9
        doy == (153 * mp + 2) \div 5 + d - 1
        doe == yoe * 365 + yoe \div 4 - yoe \div 100 + doy
    IN era * 146097 + doe - 719468

\* [year, month] of the civil date that is `days` days after 1970-01-01
CivilFromDays(days) ==
    LET z == days + 719468
        era == z \div 146097
        doe == z - era * 146097
        yoe == (doe - doe \div 1460 + doe \div 36524 - doe \div 146096) \div 365
        doy == doe - (365 * yoe + yoe \div 4 - yoe \div 100)
        mp == (5 * doy + 2) \div 153
        m == IF mp < 10 THEN mp + 3 ELSE mp - 9
        y == yoe + era * 400 + (IF m <= 2 THEN 1 ELSE 0)
    IN [year |-> y, month |-> m]

\* day of the month of the civil date that is `days` days after 1970-01-01
CivilDay(days) ==
    LET z == days + 719468
        era == z \div 146097
        doe == z - era * 146097
        yoe == (doe - doe \div 1460 + doe \div 36524 - doe \div 146096) \div 365
        doy == doe - (365 * yoe + yoe \div 4 - yoe \div 100)
        mp == (5 * doy + 2) \div 153
    IN doy - (153 * mp + 2) \div 5 + 1

\* datetime.fromtimestamp(ts), reduced to its year and month
FromTimestamp(ts) == CivilFromDays(ts \div 86400)

\* datetime(y, m, d, 0, 0, sec).timestamp()
TsOf(y, m, d, sec) == DaysFromCivil(y, m, d) * 86400 + sec

(***************************************************************************)
(* Pure functions of chronicle_gate.py                                     *)
(***************************************************************************)
\* datetime.fromisoformat(value) for the ISO strings of the input domain,
\* naive values read as UTC; 0 - 1 stands for "raises ValueError"
FromIsoFormat(str) ==
    CASE str = "2025-12-01T00:00:03" -> TsOf(2025, 12, 1, 3)
      [] str = "2026-01-01T00:00:00" -> TsOf(2026, 1, 1, 0)
      [] OTHER -> 0 - 1

\* float(value) for the one-digit strings; 0 - 1 stands for "raises
\* ValueError"
FloatOfStr(str) ==
    IF \E k \in 0..9 : DigitStr(k) = str
    THEN CHOOSE k \in 0..9 : DigitStr(k) = str
    ELSE 0 - 1

\* _normalize_timestamp(value); clock is the reading of time.time()
NormalizeTimestamp(value, clock) ==
    CASE value.t = "num" -> value.n
      [] value.t = "str" ->
            IF FromIsoFormat(value.s) >= 0 THEN FromIsoFormat(value.s)
            ELSE IF FloatOfStr(value.s) >= 0 THEN FloatOfStr(value.s)
            ELSE clock
      [] OTHER -> clock

\* month + 1 with the December roll-over of _iter_db_paths_in_range
NextMonth(cur) ==
    IF cur.month = 12
    THEN [year |-> cur.year + 1, month |-> 1]
    ELSE [year |-> cur.year, month |-> cur.month + 1]

\* ResolveMonthDbPath with the file named by the month alone and kept in
\* one directory: <root>/<MM>.db
ResolveMonthOnly(ts) ==
    LET dt == FromTimestamp(ts)
    IN [year |-> 0, month |-> dt.month]

\* _resolve_month_db_path(base_path, ts): the partition of a timestamp
ResolveMonthDbPath(ts) ==
    LET dt == FromTimestamp(ts)
    IN [year |-> dt.year, month |-> dt.month]

\* extension.lstrip(".") for the extensions of the input domain
LStripDots(ext) ==
    CASE ext = ".png" -> "png"
      [] ext = "." -> ""
      [] OTHER -> ext

\* _resolve_blob_path(base_path, ts, object_id, extension), relative to
\* base_path: <YYYY>/blobs/<MM>-<DD>/<object_id>.<safe_ext>
ResolveBlobPath(ts, object_id, extension) ==
    LET dt == FromTimestamp(ts)
        safe_ext == IF Truthy(extension) THEN LStripDots(extension.s) ELSE "jpg"
    IN [year |-> dt.year, month |-> dt.month, day |-> CivilDay(ts \div 86400),
        name |-> object_id, ext |-> safe_ext]

\* _serialize_content(content)
SerializeContent(content) ==
    CASE content.t = "none" -> ""
      [] content.t = "absent" -> ""
      [] content.t = "dict" -> content.s
      [] content.t = "list" -> ListJson(content.n)
      [] OTHER -> StrOf(content).s

\* ChronicleGate._prepare_payload: the dict after the in-place update;
\* fresh is the value the next _uuid7() call would return
PreparePayload(payload, clock, fresh) ==
    LET p1 == IF ~Has(payload, "id") /\ ~Has(payload, "object_id")
              THEN [payload EXCEPT !["id"] = fresh]
              ELSE payload
        dflt == NormalizeTimestamp(
                    PyOr(Get(p1, "timestamp"), Get(p1, "create_time")), clock)
    IN IF Has(p1, "timestamp")
       THEN p1
       ELSE [p1 EXCEPT !["timestamp"] = PyNum(dflt)]

\* does _prepare_payload call _uuid7() for this dict
PayloadNeedsId(payload) == ~Has(payload, "id") /\ ~Has(payload, "object_id")

\* does _prepare_record call _uuid7() for this dict
RecordNeedsId(payload) ==
    ~Truthy(PyOr(Get(payload, "id"), Get(payload, "object_id")))

\* the local blob_bytes of _prepare_record
BlobBytesOf(payload) ==
    PyOr(Get(payload, "blob_bytes"), Get(payload, "content_bytes"))

\* isinstance(blob_bytes, (bytes, bytearray))
HasBlob(payload) == BlobBytesOf(payload).t = "bytes"

\* ChronicleGate._prepare_record: the ChronicleRecord, written as the row
\* it is inserted as
PrepareRecord(payload, clock, fresh) ==
    LET object_id == PyOr(PyOr(Get(payload, "id"), Get(payload, "object_id")),
                          fresh)
        timestamp == NormalizeTimestamp(
                        PyOr(Get(payload, "timestamp"),
                             Get(payload, "create_time")), clock)
        source == PyOr(Get(payload, "source"), Get(payload, "context_type"))
        content == SerializeContent(
                        PyOr(Get(payload, "content"),
                             Get(payload, "content_text")))
        extension == PyOr(PyOr(Get(payload, "blob_ext"),
                               Get(payload, "content_ext")),
                          PyStr("jpg"))
    IN [id |-> StrOf(object_id),
        timestamp |-> timestamp,
        source |-> IF source.t = "none" THEN PyNone ELSE StrOf(source),
        content |-> content,
        blob_path |-> IF HasBlob(payload)
                      THEN ResolveBlobPath(timestamp, object_id, extension)
                      ELSE PyNone]

(***************************************************************************)
(* Storage: one SQLite database per month                                  *)
(*   store : partition path -> rows of table chronicle, in rowid order     *)
(*           (the domain is the set of database files that exist)          *)
(*   conns : partition path -> state of the writer's cached connection     *)
(***************************************************************************)
\* a cached connection with no transaction open
IdleConn == [intx |-> FALSE, pending |-> <<>>]

\* the function f extended or overwritten at key k
Put(f, k, v) == [x \in (DOMAIN f) \cup {k} |-> IF x = k THEN v ELSE f[x]]

\* the values of column id in a sequence of rows
IdsOf(rows) == {rows[i].id : i \in 1..Len(rows)}

\* cursor.executemany(INSERT ...) against table rows `table`: the rows
\* inserted before the first PRIMARY KEY collision, and whether one happened
RECURSIVE ExecuteMany(_, _, _, _)
ExecuteMany(table, records, i, done) ==
    IF i > Len(records)
    THEN [ok |-> TRUE, inserted |-> done]
    ELSE IF records[i].id \in IdsOf(table) \cup IdsOf(done)
         THEN [ok |-> FALSE, inserted |-> done]
         ELSE ExecuteMany(table, records, i + 1, Append(done, records[i]))

\* [self._prepare_record(payload) for payload in batch], with the number
\* of _uuid7() calls made so far
RECURSIVE PrepareRecords(_, _, _, _, _, _)
PrepareRecords(batch, heap, clock, uuid, i, done) ==
    IF i > Len(batch)
    THEN [records |-> done, uuid |-> uuid]
    ELSE LET payload == heap[batch[i]]
             uses == RecordNeedsId(payload)
             rec == PrepareRecord(payload, clock, PyUuid(uuid + 1))
         IN PrepareRecords(batch, heap, clock,
                           IF uses THEN uuid + 1 ELSE uuid,
                           i + 1, Append(done, rec))

\* the blob files after the _write_blob calls _prepare_record makes for
\* the payloads of the batch, records[i] being the record of batch[i]
RECURSIVE WriteBlobs(_, _, _, _, _)
WriteBlobs(batch, heap, records, i, fs) ==
    IF i > Len(batch)
    THEN fs
    ELSE WriteBlobs(batch, heap, records, i + 1,
                    IF HasBlob(heap[batch[i]])
                    THEN Put(fs, records[i].blob_path,
                             BlobBytesOf(heap[batch[i]]))
                    ELSE fs)

\* keys of `grouped` in insertion order: the partitions of the batch in
\* order of first appearance
RECURSIVE GroupPaths(_, _, _)
GroupPaths(records, i, done) ==
    IF i > Len(records)
    THEN done
    ELSE LET path == ResolveMonthDbPath(records[i].timestamp)
         IN GroupPaths(records, i + 1,
                       IF \E j \in 1..Len(done) : done[j] = path
                       THEN done
                       ELSE Append(done, path))

\* grouped[db_path] with the record added last put first
GroupOfNewestFirst(records, path) ==
    LET group == SelectSeq(records,
                           LAMBDA r : ResolveMonthDbPath(r.timestamp) = path)
    IN [i \in 1..Len(group) |-> group[Len(group) + 1 - i]]

\* grouped[db_path]
GroupOf(records, path) ==
    SelectSeq(records, LAMBDA r : ResolveMonthDbPath(r.timestamp) = path)

\* the second loop of _write_batch from group g on: BEGIN, executemany,
\* commit on each partition's cached connection, up to the first exception
RECURSIVE CommitGroups(_, _, _, _, _)
CommitGroups(paths, records, g, st, cn) ==
    IF g > Len(paths)
    THEN [store |-> st, conns |-> cn, exc |-> "none", failed |-> 0]
    ELSE LET path == paths[g]
             \* _get_connection: open and cache, creating the database file
             cn1 == IF path \in DOMAIN cn THEN cn ELSE Put(cn, path, IdleConn)
             st1 == IF path \in DOMAIN st THEN st ELSE Put(st, path, <<>>)
             ins == ExecuteMany(st1[path], GroupOf(records, path), 1, <<>>)
         IN IF cn1[path].intx
            THEN \* BEGIN inside the transaction a failed batch left open
                 [store |-> st1, conns |-> cn1,
                  exc |-> "OperationalError", failed |-> g]
            ELSE IF ~ins.ok
            THEN \* the exception leaves the transaction open, not rolled back
                 [store |-> st1,
                  conns |-> Put(cn1, path,
                                [intx |-> TRUE, pending |-> ins.inserted]),
                  exc |-> "IntegrityError", failed |-> g]
            ELSE CommitGroups(paths, records, g + 1,
                              Put(st1, path, st1[path] \o ins.inserted), cn1)

\* what _write_batch leaves behind, given the outcome res of its commit
\* loop over the partitions `paths` of the prepared records
BatchOutcome(res, paths, prep, written) ==
    [store |-> res.store, conns |-> res.conns, exc |-> res.exc,
     failed |-> res.failed, paths |-> paths, records |-> prep.records,
     uuid |-> prep.uuid, blobs |-> written]

\* the second loop of _write_batch over the groups of the prepared records
CommitPrepared(prep, paths, st, cn, written) ==
    BatchOutcome(CommitGroups(paths, prep.records, 1, st, cn), paths, prep,
                 written)

\* the first loop of _write_batch done: records prepared, blobs written
GroupPrepared(prep, batch, heap, st, cn, fs) ==
    CommitPrepared(prep, GroupPaths(prep.records, 1, <<>>), st, cn,
                   WriteBlobs(batch, heap, prep.records, 1, fs))

\* ChronicleGate._write_batch(batch)
WriteBatch(batch, heap, clock, uuid, st, cn, fs) ==
    GroupPrepared(PrepareRecords(batch, heap, clock, uuid, 1, <<>>),
                  batch, heap, st, cn, fs)

(***************************************************************************)
(* Read paths                                                              *)
(***************************************************************************)
\* calendar order of partition paths
PathBefore(a, b) == a.year < b.year \/ (a.year = b.year /\ a.month < b.month)

\* the elements of a set of paths as a sequence in calendar order
RECURSIVE SortedPaths(_)
SortedPaths(paths) ==
    IF paths = {}
    THEN <<>>
    ELSE LET first == CHOOSE a \in paths : \A b \in paths : ~PathBefore(b, a)
         IN <<first>> \o SortedPaths(paths \ {first})

\* the year directories under base_path
YearDirs(st) == {path.year : path \in DOMAIN st}

\* the orders in which base_path.iterdir() may yield the year directories:
\* the order is the file system's, so every permutation
YearOrders(st) ==
    {years \in [1..Cardinality(YearDirs(st)) -> YearDirs(st)] :
        \A i, j \in DOMAIN years : i # j => years[i] # years[j]}

\* ChronicleGate._iter_db_paths: year directory by year directory in the
\* order `years` of iterdir(), the files of each in sorted(glob("*.db"))
\* order
RECURSIVE IterDbPaths(_, _)
IterDbPaths(st, years) ==
    IF years = <<>>
    THEN <<>>
    ELSE SortedPaths({path \in DOMAIN st : path.year = Head(years)})
            \o IterDbPaths(st, Tail(years))

\* the while loop of _iter_db_paths_in_range: one path per month from
\* current to end_marker, through the timestamp of each first of month
RECURSIVE MonthWalk(_, _)
MonthWalk(current, end_marker) ==
    IF PathBefore(end_marker, current)
    THEN <<>>
    ELSE LET ts == TsOf(current.year, current.month, 1, 0)
         IN <<ResolveMonthDbPath(ts)>> \o MonthWalk(NextMonth(current), end_marker)

\* ChronicleGate._iter_db_paths_in_range(start_ts, end_ts)
IterDbPathsInRange(st, start_ts, end_ts) ==
    LET start_dt == FromTimestamp(start_ts)
        end_dt == FromTimestamp(end_ts)
        current == [year |-> start_dt.year, month |-> start_dt.month]
        end_marker == [year |-> end_dt.year, month |-> end_dt.month]
    IN SelectSeq(MonthWalk(current, end_marker), LAMBDA path : path \in DOMAIN st)

\* OrderByTimestamp without the ORDER BY clause: rows come in rowid order
OrderByRowid(rows) == rows

\* ORDER BY timestamp ASC over rows in rowid order: insertion of row r
\* behind the rows that are not later than it
RECURSIVE OrderByTimestamp(_)
OrderByTimestamp(rows) ==
    IF rows = <<>>
    THEN <<>>
    ELSE LET n == Len(rows)
             head == OrderByTimestamp(SubSeq(rows, 1, n - 1))
             r == rows[n]
             k == Cardinality({i \in 1..Len(head) : head[i].timestamp <= r.timestamp})
         IN SubSeq(head, 1, k) \o <<r>> \o SubSeq(head, k + 1, Len(head))

\* SELECT ... WHERE timestamp BETWEEN ? AND ? ORDER BY timestamp ASC
SelectBetween(rows, start_ts, end_ts) ==
    OrderByTimestamp(
        SelectSeq(rows, LAMBDA r : start_ts <= r.timestamp /\ r.timestamp <= end_ts))

\* results.extend(...) over the partitions in `paths`
RECURSIVE ExtendResults(_, _, _, _)
ExtendResults(st, paths, start_ts, end_ts) ==
    IF paths = <<>>
    THEN <<>>
    ELSE SelectBetween(st[Head(paths)], start_ts, end_ts)
            \o ExtendResults(st, Tail(paths), start_ts, end_ts)

\* ChronicleGate._read_by_time_range_sync(start_ts, end_ts)
ReadByTimeRangeSync(st, start_ts, end_ts) ==
    ExtendResults(st, IterDbPathsInRange(st, start_ts, end_ts), start_ts, end_ts)

\* every committed row of the store
AllRows(st) == UNION {{st[p][i] : i \in 1..Len(st[p])} : p \in DOMAIN st}

\* the rows SELECT ... WHERE id = ? returns from one partition
SelectById(rows, object_id) ==
    SelectSeq(rows, LAMBDA r : object_id.t = "str" /\ r.id = object_id)

\* the value read_by_id returns when no partition holds the id
NotFound == [id |-> PyNone, timestamp |-> 0, source |-> PyNone,
             content |-> "", blob_path |-> PyNone]

\* ChronicleGate._read_by_id_sync(object_id): the first hit, partition by
\* partition
RECURSIVE FirstHit(_, _, _)
FirstHit(st, paths, object_id) ==
    IF paths = <<>>
    THEN NotFound
    ELSE LET hit == SelectById(st[Head(paths)], object_id)
         IN IF hit # <<>> THEN hit[1] ELSE FirstHit(st, Tail(paths), object_id)

ReadByIdSync(st, years, object_id) ==
    FirstHit(st, IterDbPaths(st, years), object_id)

(***************************************************************************)
(* State of one ChronicleGate and of its callers                           *)
(***************************************************************************)
VARIABLES
    envs,       \* heap of the callers' envelope dicts: handle -> content
    queue,      \* self._queue: handles of the dicts waiting for the writer
    unfinished, \* self._queue._unfinished_tasks
    writer,     \* self._writer_task: "none", "waiting" (at the first
                \* queue.get), "batching" (accumulating), "failed" (done,
                \* with an exception)
    writerExc,  \* the exception self._writer_task ended with
    batch,      \* the local `batch` of _writer_loop
    window,     \* the batch window: "closed", "open", "elapsed"
    store,      \* the partition databases and their committed rows
    blobs,      \* the blob files under the store root: path -> content
    conns,      \* self._connections
    clock,      \* index of the current time.time() reading
    uuid,       \* number of _uuid7() calls made so far
    flushPc,    \* the caller of flush(): "idle", "waiting", "returned"
    flushSnap,  \* number of envelopes enqueued when flush() was called
    history,    \* handles in the order they were enqueued
    lastRead,   \* what the last step returned, when it was a read
    shutdownPc, \* the caller of shutdown(): "idle", "flushing", "cancelling",
                \* "closing", "returned"
    windowAge,  \* seconds of loop time since start_time of the current batch
    gate,       \* the ChronicleGate(...) call of the application: "none" (not
                \* made), "TypeError" (it raised), "ready" (it returned)
    inner,      \* the task asyncio.wait_for makes for self._queue.get() in
                \* _writer_loop: pc "none" (no wait_for under way), "active"
                \* (it runs queue.get()), "done" (it has returned item and
                \* the writer has not resumed), "cancelled" (the timeout came
                \* first: the writer cancels it)
    commit,     \* the _write_batch call that a reader thread sees under way:
                \* pc "none", "group" (before _get_connection for group g
                \* of paths), "bare" (the database file of the group exists
                \* without its table), "insert" (before BEGIN)
    saveExc,    \* what the latest save_event call raised to its caller:
                \* "none" (no call yet), "TypeError"
    registry,   \* _SENSOR_REGISTRY: the entries in insertion order
    running,    \* the adapters whose is_running() is True
    desired,    \* SensorManager._desired_running
    startCalls, \* the start() calls the latest manager operation made
    unregistered, \* ids unregistered and not covered by a start_all since
    sinceStopAll, \* stop_all has run and start_all has not run since
    lastOp,     \* the latest operation on the registry, manager or adapters
    stopSet,    \* stop_event.is_set()
    loopAsleep, \* the event was set by a handler run by signal.signal
                \* while the event loop slept in the wait_for of
                \* monitor_health, and the loop has not run since
    monPc,      \* monitor_health: "none", "test" (at the loop test),
                \* "check" (the test passed, check_health() is next),
                \* "waiting" (in wait_for), "returned"
    interval,   \* the interval argument of monitor_health, in ticks
    waited,     \* ticks spent in the current wait_for
    sinceStop,  \* ticks since the stop signal was set under a live monitor
    cKind,      \* the subscription client in use and its caller: "none",
                \* "dashboard" (GraphQLClient under subscribe_updates),
                \* "cli" (GraphQLWebSocketClient under handle_log_stream or
                \* handle_status_stream), "worker" (GraphQLWebSocketClient
                \* under LogSubscriptionWorker._subscribe)
    cPc,        \* the client: "idle", "connecting" (in the await of
                \* websockets.connect), "handshake", "subscribed", "done"
                \* (stream ended), "failed" (error raised to the caller;
                \* the worker sleeps before it connects again),
                \* "cancelled" (the task running it was cancelled),
                \* "stopped" (the worker has returned on its _stop_event)
    cOpen,      \* the client's websocket is open
    cSent,      \* types of the messages the client has sent on it
    cYielded,   \* number of payloads yielded to the caller
    cPings,     \* number of ping messages received on the connection
    cLast,      \* the message received last
    cExit,      \* how the client's block has been left while the close
                \* of the websocket is awaited: "none", "raise", "break",
                \* "cancel", "return" (the worker on its _stop_event)
    cHeld,      \* the message that has arrived for the task asyncio.wait_for
                \* made for recv() in _await_ack and that _await_ack has not
                \* handled yet
    cStop,      \* LogSubscriptionWorker.stop(): "clear", "set" (_stop_event
                \* set, task.cancel scheduled on the loop), "cancelled"
                \* (task.cancel() has run)
    cWaited,    \* ticks the current wait_for of _await_ack has waited
    reply,      \* the SensorActionResult the latest operation returned,
                \* when it was a toggleSensor or bulkAction mutation
    published,  \* the status events the latest operation published
    statusSubs, \* _SENSOR_SUBSCRIBERS: the sensorStatus subscribers, in order
    subQueue,   \* the asyncio.Queue of each sensorStatus subscriber
    subGot,     \* the events each sensorStatus generator has yielded
    subSince,   \* length of statusLog when the subscriber joined the list
    statusLog,  \* the status events published to a non-empty list, in order
    logQueue,   \* log_broadcast: the payloads waiting, oldest first
    logSubs,    \* the clients whose logStream generator is running
    logSeq,     \* number of log payloads enqueued so far
    logTaken,   \* the payload the latest step yielded to a logStream client
    logLoop,    \* _log_broadcast_loop has been set (by a logStream client)
    logHeld,    \* the payload the sink's thread holds inside
                \* _enqueue_log_broadcast after put_nowait raised QueueFull:
                \* pc "full" (before get_nowait), "dropped" (before the
                \* second put_nowait), "none"
    pCreated,   \* HTTPConnectionPool._created
    pIdle,      \* HTTPConnectionPool._pool: the LifoQueue, bottom first
    pAlive,     \* the connections created and not closed
    pPc,        \* each thread's place in request(): "idle", "empty"
                \* (get_nowait() raised Empty), "checked" (found
                \* _created < _max_size), "using" (inside the with block),
                \* "blocked" (in self._pool.get())
    pHeld       \* the connection each thread holds, 0 for none

vars == <<envs, queue, unfinished, writer, writerExc, batch, window, store,
          blobs, conns, clock, uuid, flushPc, flushSnap, history, lastRead,
          shutdownPc, windowAge, gate, inner, commit, saveExc, registry, running, desired, startCalls, unregistered,
          sinceStopAll, lastOp, stopSet, loopAsleep, monPc, interval, waited, sinceStop,
          cKind, cPc, cOpen, cSent, cYielded, cPings, cLast, cExit, cHeld,
          cStop, cWaited, reply,
          published, statusSubs, subQueue, subGot, subSince, statusLog,
          logQueue, logSubs, logSeq, logTaken, logLoop, logHeld, pCreated, pIdle, pAlive, pPc,
          pHeld>>

\* the gate's state with the position of the caller of shutdown()
gateVars == <<envs, queue, unfinished, writer, writerExc, batch, window, store,
              blobs, conns, clock, uuid, flushPc, flushSnap, history, lastRead,
              shutdownPc, windowAge, gate, inner, commit>>

\* what the callers of save_event have got from it
saveVars == <<saveExc>>

\* the sensor registry, the adapters, the SensorManager and what the latest
\* operation on them returned and published
sensorVars == <<registry, running, desired, startCalls, unregistered,
                sinceStopAll, lastOp, reply, published>>

\* the stop signal and the task running SensorManager.monitor_health
monitorVars == <<stopSet, loopAsleep, monPc, interval, waited, sinceStop>>

\* a subscription client and its connection
clientVars == <<cKind, cPc, cOpen, cSent, cYielded, cPings, cLast, cExit,
                cHeld, cStop, cWaited>>

\* the sensorStatus subscriptions of the GraphQL schema
statusVars == <<statusSubs, subQueue, subGot, subSince, statusLog>>

\* the log broadcast queue and the logStream subscriptions
logVars == <<logQueue, logSubs, logSeq, logTaken, logLoop, logHeld>>

\* the HTTPConnectionPool of the test CLI and the threads using it
poolVars == <<pCreated, pIdle, pAlive, pPc, pHeld>>

\* the feeds and the pool
serviceVars == <<statusVars, logVars, poolVars>>

\* what the gate's operations leave alone
outsideGate == <<saveVars, sensorVars, monitorVars, clientVars, serviceVars>>

\* what the manager and its health monitor leave alone
outsideManager == <<gateVars, saveVars, clientVars, serviceVars>>

\* what the operations on registry, manager and adapters leave alone
outsideSensors == <<monitorVars, outsideManager>>

\* what a subscription client leaves alone
outsideClient == <<gateVars, saveVars, sensorVars, monitorVars, serviceVars>>

\* what a sensorStatus subscription leaves alone
outsideStatus == <<registry, running, desired, unregistered, sinceStopAll,
                   gateVars, saveVars, monitorVars, clientVars, logVars,
                   poolVars>>

\* what the log feed leaves alone
outsideLog == <<gateVars, saveVars, sensorVars, monitorVars, clientVars, statusVars,
                poolVars>>

\* what the connection pool leaves alone
outsidePool == <<gateVars, saveVars, sensorVars, monitorVars, clientVars, statusVars,
                 logVars>>

\* the clients that subscribe to the feeds of the schema
Viewers == {"v1", "v2"}

\* the threads of the test CLI that call GraphQLHTTPClient.request
Threads == {"t1", "t2", "t3"}

\* no payload yielded by the latest step
NoLog == [to |-> "none", id |-> 0, audience |-> {}]

\* the sink's thread is not inside _enqueue_log_broadcast
NoHeldLog == [pc |-> "none", id |-> 0]

\* time.time() at clock reading k: 2026-01-15, then steps of 17 days
NowAt(k) == TsOf(2026, 1, 15, 0) + (k - 1) * 17 * 86400

Now == NowAt(clock)

(***************************************************************************)
(* Input domain: the envelopes producers hand to the gate                  *)
(***************************************************************************)
\* {"id": "a", "timestamp": 2025-12-01T00:00:03, "content": "x"}
EnvA == Dict({<<"id", PyStr("a")>>,
              <<"timestamp", PyNum(TsOf(2025, 12, 1, 3))>>,
              <<"content", PyStr("x")>>})
\* the id "a" again, captured a month later
EnvA2 == Dict({<<"id", PyStr("a")>>,
               <<"timestamp", PyNum(TsOf(2026, 1, 1, 0))>>,
               <<"content", PyStr("y")>>})
\* {"id": "b", "timestamp": 2026-01-01T00:00:05, "content": {"k": 1}}
EnvB == Dict({<<"id", PyStr("b")>>,
              <<"timestamp", PyNum(TsOf(2026, 1, 1, 5))>>,
              <<"content", PyDict("{\"k\": 1}", 1)>>})
\* {"id": None, "timestamp": 2026-01-01T00:00:00, "content": "x"}
EnvNoneId == Dict({<<"id", PyNone>>,
                   <<"timestamp", PyNum(TsOf(2026, 1, 1, 0))>>,
                   <<"content", PyStr("x")>>})
\* {"content": "x"}: no id, no timestamp
EnvBare == Dict({<<"content", PyStr("x")>>})
\* {"id": "c", "timestamp": 2026-01-01T00:00:05, "content": {}}
EnvEmpty == Dict({<<"id", PyStr("c")>>,
                  <<"timestamp", PyNum(TsOf(2026, 1, 1, 5))>>,
                  <<"content", PyDict("{}", 0)>>})
\* a dumped RawContextProperties: object_id, create_time, content_text
EnvRaw == Dict({<<"object_id", PyStr("d")>>,
                <<"create_time", PyNum(TsOf(2025, 11, 1, 0))>>,
                <<"context_type", PyStr("screenshot")>>,
                <<"content_text", PyStr("t")>>})

\* {"id": "a", "timestamp": 2026-01-01T00:00:00, "content": "x",
\*  "blob_bytes": b"1"}
EnvBlobA == Dict({<<"id", PyStr("a")>>,
                  <<"timestamp", PyNum(TsOf(2026, 1, 1, 0))>>,
                  <<"content", PyStr("x")>>,
                  <<"blob_bytes", PyBytes("1", 1)>>})
\* the id "a" again, five seconds later, with another binary payload
EnvBlobA2 == Dict({<<"id", PyStr("a")>>,
                   <<"timestamp", PyNum(TsOf(2026, 1, 1, 5))>>,
                   <<"content", PyStr("y")>>,
                   <<"blob_bytes", PyBytes("2", 1)>>})
\* {"id": "f", "timestamp": 2025-12-01T00:00:03, "content": [1],
\*  "content_bytes": bytearray(b"3"), "content_ext": ".png"}
EnvPng == Dict({<<"id", PyStr("f")>>,
                <<"timestamp", PyNum(TsOf(2025, 12, 1, 3))>>,
                <<"content", PyList(1)>>,
                <<"content_bytes", PyBytes("3", 1)>>,
                <<"content_ext", PyStr(".png")>>})

\* envelopes with and without a binary payload
ShapesBlob == {EnvBlobA, EnvBlobA2, EnvPng, EnvB}

\* {"id": "z", "timestamp": 0, "create_time": 2025-12-01T00:00:03,
\*  "content": "x"}
EnvZero == Dict({<<"id", PyStr("z")>>,
                 <<"timestamp", PyNum(0)>>,
                 <<"create_time", PyNum(TsOf(2025, 12, 1, 3))>>,
                 <<"content", PyStr("x")>>})
\* {"id": "n", "content": "x"}: neither timestamp nor create_time
EnvNoTs == Dict({<<"id", PyStr("n")>>, <<"content", PyStr("x")>>})

\* envelopes with and without a timestamp of their own
ShapesTime == {EnvZero, EnvNoTs, EnvRaw, EnvB}

\* the envelopes of the write path: a repeated id, a null id, no id
Shapes == {EnvA, EnvA2, EnvB, EnvNoneId, EnvBare, EnvEmpty}

\* envelopes with a usable id and timestamp, over three partitions
ShapesRead == {EnvA, EnvA2, EnvB, EnvRaw}

\* arguments of read_by_time_range
ReadTimes == {TsOf(2025, 11, 1, 0), TsOf(2025, 12, 1, 3),
              TsOf(2026, 1, 1, 0), TsOf(2026, 1, 1, 5)}

\* An argument of append / an element of the list given to append_many:
\* a new dict (ref = 0) or the dict object with handle ref, passed again
FreshArgs(shapes) == {[ref |-> 0, p |-> sh] : sh \in shapes}

ArgsOver(shapes) ==
    FreshArgs(shapes)
        \cup {[ref |-> k, p |-> EmptyPayload] : k \in 1..MaxAppends}

\* the lists of 1 to MaxMany elements of a set of arguments
ListsOf(args) == UNION {[1..n -> args] : n \in 1..MaxMany}

(***************************************************************************)
(* Operations                                                              *)
(***************************************************************************)
\* the latest operation returned no SensorActionResult
NoReply == [status_code |-> 0, error_stack |-> <<>>, sensors |-> <<>>]

\* no message received yet
NoMessage == [type |-> "none", id |-> "none"]

\* no read_by_time_range call is under way.  pc is the position of the
\* worker thread asyncio.to_thread runs _read_by_time_range_sync in: "exists"
\* while it filters the walked paths by path.exists(), "select" while it
\* queries the opened databases one by one, "returned" when the caller has
\* the list, "raised" when the thread has ended with an exception; valid is
\* pc = "returned".  walk and todo are the paths still to test and to query.  stores is not state of the program: it keeps every
\* content the store has had since the call was made, for the properties
\* that compare the result of the read with the store.
NoRead == [valid |-> FALSE, pc |-> "none", start |-> 0, end |-> 0,
           walk |-> <<>>, opened |-> <<>>, todo |-> <<>>, rows |-> <<>>,
           stores |-> {}]

\* lastRead once the store has the content st: a read under way has it
\* added to the contents it ran against
Seen(lr, st) ==
    IF lr.pc \in {"exists", "select"}
    THEN [lr EXCEPT !.stores = @ \cup {st}]
    ELSE lr

\* no wait_for is under way in _writer_loop
NoInner == [pc |-> "none", item |-> 0]

\* a wait_for(self._queue.get(), remaining) is under way and its task has
\* taken nothing yet
ActiveInner == [pc |-> "active", item |-> 0]

\* no _write_batch call is under way
NoCommit == [pc |-> "none", g |-> 0, paths |-> <<>>, records |-> <<>>]

\* the classes the application can make its gate from: ChronicleGate as
\* chronicle_gate.py has it, and ChronicleGate with create, read_by_type,
\* update and delete defined
GateClasses == {"ChronicleGate", "concrete"}

\* cls has abstract methods left: ChronicleGate defines none of create,
\* read_by_type, update and delete, which BaseChronicle declares abstract
IsAbstract(cls) == cls = "ChronicleGate"

\* The state before the application makes its ChronicleGate: the attributes
\* have the values ChronicleGate.__init__ gives them, no sensor is
\* registered, no client connected, nobody subscribed.
Init ==
    /\ envs = <<>>
    /\ queue = <<>>
    /\ unfinished = 0
    /\ writer = "none"
    /\ writerExc = "none"
    /\ batch = <<>>
    /\ window = "closed"
    /\ store = <<>>
    /\ blobs = <<>>
    /\ conns = <<>>
    /\ clock = 1
    /\ uuid = 0
    /\ flushPc = "idle"
    /\ flushSnap = 0
    /\ history = <<>>
    /\ lastRead = NoRead
    /\ shutdownPc = "idle"
    /\ windowAge = 0
    /\ gate = "none"
    /\ inner = NoInner
    /\ commit = NoCommit
    /\ saveExc = "none"
    /\ registry = <<>>
    /\ running = {}
    /\ desired = {}
    /\ startCalls = {}
    /\ unregistered = {}
    /\ sinceStopAll = FALSE
    /\ lastOp = "none"
    /\ stopSet = FALSE
    /\ loopAsleep = FALSE
    /\ monPc = "none"
    /\ interval = 1
    /\ waited = 0
    /\ sinceStop = 0
    /\ cKind = "none"
    /\ cPc = "idle"
    /\ cOpen = FALSE
    /\ cSent = <<>>
    /\ cYielded = 0
    /\ cPings = 0
    /\ cLast = NoMessage
    /\ cExit = "none"
    /\ cHeld = NoMessage
    /\ cStop = "clear"
    /\ cWaited = 0
    /\ reply = NoReply
    /\ published = <<>>
    /\ statusSubs = <<>>
    /\ subQueue = [v \in Viewers |-> <<>>]
    /\ subGot = [v \in Viewers |-> <<>>]
    /\ subSince = [v \in Viewers |-> 0]
    /\ statusLog = <<>>
    /\ logQueue = <<>>
    /\ logSubs = {}
    /\ logSeq = 0
    /\ logTaken = NoLog
    /\ logLoop = FALSE
    /\ logHeld = NoHeldLog
    /\ pCreated = 0
    /\ pIdle = <<>>
    /\ pAlive = {}
    /\ pPc = [t \in Threads |-> "idle"]
    /\ pHeld = [t \in Threads |-> 0]

\* ChronicleGate.__init__: flush_interval: float = 2.0
FlushIntervalDefault == 2
\* the limits __init__ clamps flush_interval to
MinFlushInterval == 1
MaxFlushInterval == 5

\* max(1.0, min(flush_interval, 5.0))
ClampInterval(flush_interval) ==
    LET capped == IF flush_interval < MaxFlushInterval
                  THEN flush_interval ELSE MaxFlushInterval
    IN IF capped > MinFlushInterval THEN capped ELSE MinFlushInterval

\* self._flush_interval of a gate constructed with the default
FlushInterval == ClampInterval(FlushIntervalDefault)

\* remaining = self._flush_interval - (loop.time() - start_time)
Remaining(age) == FlushInterval - age

\* a writer whose window never ends
WindowOverNever(age) == FALSE

\* remaining <= 0, and equally wait_for(..., timeout=remaining) timing out
WindowOver(age) == Remaining(age) <= 0

\* ChronicleGate(...) for a class cls: a class with abstract methods left
\* is not instantiated, TypeError is raised before __init__ runs
NewGate(cls) ==
    /\ gate = "none"
    /\ gate' = IF IsAbstract(cls) THEN "TypeError" ELSE "ready"
    /\ UNCHANGED <<envs, queue, unfinished, writer, writerExc, batch, window,
                   store, blobs, conns, clock, uuid, flushPc, flushSnap, history,
                   lastRead, shutdownPc, windowAge, inner, commit,
                   outsideGate>>

\* ChronicleGate._ensure_writer_task: the state of self._writer_task
EnsureWriterTask(w) == IF w \in {"waiting", "batching"} THEN w ELSE "waiting"

\* the loop body of append_many (and the body of append) over args from
\* position i: _prepare_payload on the dict, then queue.put of the same dict
RECURSIVE EnqueueAll(_, _, _, _, _, _)
EnqueueAll(args, i, heap, q, u, now) ==
    IF i > Len(args)
    THEN [envs |-> heap, queue |-> q, uuid |-> u]
    ELSE LET a == args[i]
             h == IF a.ref = 0 THEN Len(heap) + 1 ELSE a.ref
             before == IF a.ref = 0 THEN a.p ELSE heap[h]
             after == PreparePayload(before, now, PyUuid(u + 1))
             heap1 == IF a.ref = 0
                      THEN Append(heap, after)
                      ELSE [heap EXCEPT ![h] = after]
         IN EnqueueAll(args, i + 1, heap1, Append(q, h),
                       IF PayloadNeedsId(before) THEN u + 1 ELSE u, now)

\* every reference in args names a dict that exists when it is reached
RefsExist(args, heapLen) ==
    \A i \in 1..Len(args) :
        args[i].ref <= heapLen
            + Cardinality({j \in 1..(i - 1) : args[j].ref = 0})

\* append / append_many run on the event loop, which a _write_batch call
\* under way keeps busy.  An envelope put while the wait_for task waits on
\* the empty queue wakes that task; when the timeout has come first the
\* writer is ahead of it and cancels it, and the envelope stays queued
Enqueue(args) ==
    /\ gate = "ready"
    /\ commit.pc = "none"
    /\ RefsExist(args, Len(envs))
    /\ \E res \in {EnqueueAll(args, 1, envs, queue, uuid, Now)} :
       /\ envs' = res.envs
       /\ queue' = res.queue
       /\ uuid' = res.uuid
       /\ unfinished' = unfinished + Len(args)
       /\ history' = history \o SubSeq(res.queue, Len(queue) + 1, Len(res.queue))
       /\ writer' = EnsureWriterTask(writer)
       /\ writerExc' = IF writer = "failed" THEN "none" ELSE writerExc
       /\ ~lastRead.valid
       /\ UNCHANGED <<batch, window, store, blobs, conns, clock, flushPc, flushSnap,
                      lastRead,
                   shutdownPc, windowAge, gate, inner, commit,
                   outsideGate>>

\* ChronicleGate.append(payload)
AppendOne(arg) ==
    /\ Len(history) < MaxAppends
    /\ Enqueue(<<arg>>)

\* ChronicleGate.append_many(payloads)
AppendMany(args) ==
    /\ Len(history) + Len(args) <= MaxAppends
    /\ Enqueue(args)

\* shutdown() is runnable: its flush() has been woken by the task_done of
\* the last envelope
ShutdownRunnable == shutdownPc = "flushing" /\ flushPc = "returned"

\* the writer's next step belongs to shutdown().  A writer that waits in
\* queue.get() is made runnable by a put after shutdown() was, and the loop
\* runs its tasks in the order they became runnable: shutdown() cancels it
\* first.  Once cancel() is called the writer's next step raises
\* CancelledError; a writer task created after it ended has its first step
\* behind the resumption of shutdown()
ShutdownAhead ==
    ShutdownRunnable \/ shutdownPc \in {"cancelling", "closing"}

\* _writer_loop: payload = await self._queue.get(); batch = [payload];
\* start_time is taken and, the batch being below max_batch_size, wait_for
\* makes a task for the next queue.get() and a timeout of the whole window
WriterGet ==
    /\ writer = "waiting"
    /\ queue # <<>>
    /\ ~ShutdownAhead
    /\ batch' = <<Head(queue)>>
    /\ queue' = Tail(queue)
    /\ writer' = "batching"
    /\ window' = "open"
    /\ windowAge' = 0
    /\ inner' = IF 1 < MaxBatchSize THEN ActiveInner ELSE NoInner
    /\ ~lastRead.valid
    /\ UNCHANGED <<envs, unfinished, writerExc, store, blobs, conns, clock, uuid,
                   flushPc, flushSnap, history,
                   lastRead,
                   shutdownPc, gate, commit,
                   outsideGate>>

\* the task wait_for made runs self._queue.get(): it takes the oldest
\* envelope out of the queue and ends with it.  The writer, which waits for
\* that task or the timeout, has not resumed: the envelope is in the queue
\* no more and not in batch yet, and other tasks run before the writer does.
\* The task is ahead of a timeout that comes while it is runnable
WaitForGet ==
    /\ writer = "batching"
    /\ inner.pc = "active"
    /\ queue # <<>>
    /\ inner' = [pc |-> "done", item |-> Head(queue)]
    /\ queue' = Tail(queue)
    /\ ~lastRead.valid
    /\ UNCHANGED <<envs, unfinished, writer, writerExc, batch, window, store,
                   blobs, conns, clock, uuid, flushPc, flushSnap, history,
                   lastRead, shutdownPc, windowAge, gate, commit,
                   outsideGate>>

\* _writer_loop resumed with the result of wait_for, also when the timeout
\* has come since the task took the envelope: batch.append(item); then the
\* loop test and `remaining <= 0`: the next wait_for is made, or the
\* accumulation is over
WriterAccumulate ==
    /\ writer = "batching"
    /\ inner.pc = "done"
    /\ batch' = Append(batch, inner.item)
    /\ LET below == Len(batch) + 1 < MaxBatchSize
           intime == window = "open" /\ ~WindowOver(windowAge)
       IN /\ inner' = IF below /\ intime THEN ActiveInner ELSE NoInner
          /\ window' = IF below /\ ~intime THEN "elapsed" ELSE window
    /\ ~lastRead.valid
    /\ UNCHANGED <<envs, queue, unfinished, writer, writerExc, store, blobs, conns,
                   clock, uuid, flushPc, flushSnap, history,
                   lastRead,
                   shutdownPc, windowAge, gate, commit,
                   outsideGate>>

\* flush_interval seconds have passed since the batch was started: the
\* timeout of wait_for releases the writer.  A task that waits on the empty
\* queue has nothing when the writer resumes, which cancels it
WindowElapse ==
    /\ writer = "batching"
    /\ window = "open"
    /\ inner.pc \in {"active", "done"}
    /\ window' = "elapsed"
    /\ inner' = IF inner.pc = "active" /\ queue = <<>>
                THEN [pc |-> "cancelled", item |-> 0]
                ELSE inner
    /\ ~lastRead.valid
    /\ UNCHANGED <<envs, queue, unfinished, writer, writerExc, batch, store, blobs,
                   conns, clock, uuid, flushPc, flushSnap, history,
                   lastRead,
                   shutdownPc, windowAge, gate, commit,
                   outsideGate>>

\* the accumulation is over: the batch is full, or its window is over and
\* wait_for has nothing more to give
CommitDue ==
    /\ writer = "batching"
    /\ inner.pc \in {"none", "cancelled"}
    /\ Len(batch) >= MaxBatchSize \/ window = "elapsed"

\* a thread of read_by_time_range is at work
ReaderAtWork == lastRead.pc \in {"exists", "select"}

\* _writer_loop, after the inner loop: try: self._write_batch(batch)
\* finally: task_done() per item; an exception ends the task.  The call is
\* synchronous: one step for everything that runs on the event loop
WriterCommit ==
    /\ CommitDue
    /\ commit.pc = "none"
    /\ ~ReaderAtWork
    /\ \E res \in {WriteBatch(batch, envs, Now, uuid, store, conns, blobs)},
          left \in {unfinished - Len(batch)} :
          /\ store' = res.store
          /\ blobs' = res.blobs
          /\ conns' = res.conns
          /\ uuid' = res.uuid
          /\ unfinished' = left
          /\ writer' = IF res.exc = "none" THEN "waiting" ELSE "failed"
          /\ writerExc' = res.exc
          /\ flushPc' = IF flushPc = "waiting" /\ left = 0
                        THEN "returned" ELSE flushPc
    /\ batch' = <<>>
    /\ window' = "closed"
    /\ inner' = NoInner
    /\ ~lastRead.valid
    /\ UNCHANGED <<envs, queue, clock, flushSnap, history, lastRead,
                   shutdownPc, windowAge, gate, commit,
                   outsideGate>>

\* _write_batch while a thread of read_by_time_range is at work, which sees
\* the call piece by piece.  Its first loop: the records are prepared and
\* the blobs written
WriteBatchBegin ==
    /\ CommitDue
    /\ commit.pc = "none"
    /\ ReaderAtWork
    /\ \E prep \in {PrepareRecords(batch, envs, Now, uuid, 1, <<>>)} :
          /\ commit' = [pc |-> "group", g |-> 1,
                        paths |-> GroupPaths(prep.records, 1, <<>>),
                        records |-> prep.records]
          /\ uuid' = prep.uuid
          /\ blobs' = WriteBlobs(batch, envs, prep.records, 1, blobs)
    /\ inner' = NoInner
    /\ UNCHANGED <<envs, queue, unfinished, writer, writerExc, batch, window,
                   store, conns, clock, flushPc, flushSnap, history, lastRead,
                   shutdownPc, windowAge, gate,
                   outsideGate>>

\* the partition the _write_batch call under way is at
CommitPath == commit.paths[commit.g]

\* _get_connection for a partition that has no database: the connect and
\* the PRAGMA of initialize_chronicle_db create the file, and the table is
\* not in it yet
CommitCreateFile ==
    /\ commit.pc = "group"
    /\ CommitPath \notin DOMAIN store
    /\ commit' = [commit EXCEPT !.pc = "bare"]
    /\ UNCHANGED <<envs, queue, unfinished, writer, writerExc, batch, window,
                   store, blobs, conns, clock, uuid, flushPc, flushSnap, history,
                   lastRead, shutdownPc, windowAge, gate, inner,
                   outsideGate>>

\* initialize_chronicle_db: executescript(SCHEMA_SQL) and commit
CommitSchema ==
    /\ commit.pc = "bare"
    /\ store' = Put(store, CommitPath, <<>>)
    /\ lastRead' = Seen(lastRead, store')
    /\ commit' = [commit EXCEPT !.pc = "insert"]
    /\ UNCHANGED <<envs, queue, unfinished, writer, writerExc, batch, window,
                   blobs, conns, clock, uuid, flushPc, flushSnap, history,
                   shutdownPc, windowAge, gate, inner,
                   outsideGate>>

\* BEGIN, executemany and commit of the partition's group on its cached
\* connection.  With the last group committed, or with an exception, the
\* call is over and the writer's step ends as in WriterCommit
CommitGroup ==
    /\ \/ commit.pc = "insert"
       \/ commit.pc = "group" /\ CommitPath \in DOMAIN store
    /\ \E one \in {CommitGroups(<<CommitPath>>, commit.records, 1, store, conns)},
          left \in {unfinished - Len(batch)} :
          /\ store' = one.store
          /\ conns' = one.conns
          /\ lastRead' = Seen(lastRead, one.store)
          /\ IF one.exc # "none" \/ commit.g = Len(commit.paths)
             THEN /\ commit' = NoCommit
                  /\ unfinished' = left
                  /\ writer' = IF one.exc = "none" THEN "waiting" ELSE "failed"
                  /\ writerExc' = one.exc
                  /\ flushPc' = IF flushPc = "waiting" /\ left = 0
                                THEN "returned" ELSE flushPc
                  /\ batch' = <<>>
                  /\ window' = "closed"
             ELSE /\ commit' = [commit EXCEPT !.pc = "group", !.g = @ + 1]
                  /\ UNCHANGED <<unfinished, writer, writerExc, flushPc, batch,
                                 window>>
    /\ UNCHANGED <<envs, queue, blobs, clock, uuid, flushSnap, history,
                   shutdownPc, windowAge, gate, inner,
                   outsideGate>>

\* ChronicleGate.flush(): await self._queue.join()
Flush ==
    /\ gate = "ready"
    /\ flushPc # "waiting"
    /\ shutdownPc # "flushing"
    /\ flushSnap' = Len(history)
    /\ flushPc' = IF unfinished = 0 THEN "returned" ELSE "waiting"
    /\ ~lastRead.valid
    /\ UNCHANGED <<envs, queue, unfinished, writer, writerExc, batch, window,
                   store, blobs, conns, clock, uuid, history,
                   lastRead,
                   shutdownPc, windowAge, gate, inner, commit,
                   outsideGate>>

\* time passes: the next time.time() reading
Tick ==
    /\ clock < MaxClock
    /\ clock' = clock + 1
    /\ ~lastRead.valid
    /\ UNCHANGED <<envs, queue, unfinished, writer, writerExc, batch, window,
                   store, blobs, conns, uuid, flushPc, flushSnap, history,
                   lastRead,
                   shutdownPc, windowAge, gate, inner, commit,
                   outsideGate>>

\* ChronicleGate.read_by_time_range(start_ts, end_ts): the query runs in a
\* worker thread on connections of its own and changes nothing in the gate
ReadByTimeRange(start_ts, end_ts) ==
    /\ gate = "ready"
    /\ commit.pc = "none"
    /\ lastRead.pc = "none"
    /\ LET start_dt == FromTimestamp(start_ts)
           end_dt == FromTimestamp(end_ts)
           current == [year |-> start_dt.year, month |-> start_dt.month]
           end_marker == [year |-> end_dt.year, month |-> end_dt.month]
           db_paths == MonthWalk(current, end_marker)
       IN lastRead' = [NoRead EXCEPT
                !.pc = IF db_paths = <<>> THEN "select" ELSE "exists",
                !.start = start_ts, !.end = end_ts, !.walk = db_paths,
                !.stores = {store}]
    /\ UNCHANGED <<envs, queue, unfinished, writer, writerExc, batch, window,
                   store, blobs, conns, clock, uuid, flushPc, flushSnap, history,
                   shutdownPc, windowAge, gate, inner, commit,
                   outsideGate>>

\* path.exists(): the database file is there, with or without its table
FileExists(path) ==
    \/ path \in DOMAIN store
    \/ commit.pc = "bare" /\ path = CommitPath

\* _iter_db_paths_in_range, `if path.exists()` for the next walked path; the
\* writer may create a database between two of these tests
ReadExists ==
    /\ lastRead.pc = "exists"
    /\ LET path == Head(lastRead.walk)
           found == IF FileExists(path)
                    THEN Append(lastRead.opened, path)
                    ELSE lastRead.opened
       IN lastRead' = [lastRead EXCEPT
                !.walk = Tail(lastRead.walk),
                !.opened = found,
                !.todo = found,
                !.pc = IF Tail(lastRead.walk) = <<>> THEN "select" ELSE "exists"]
    /\ UNCHANGED <<envs, queue, unfinished, writer, writerExc, batch, window,
                   store, blobs, conns, clock, uuid, flushPc, flushSnap, history,
                   shutdownPc, windowAge, gate, inner, commit,
                   outsideGate>>

\* one turn of the for loop of _read_by_time_range_sync: connect, SELECT,
\* close, results.extend; the writer may commit between two turns.  On a
\* database file that has no table yet the SELECT raises OperationalError
\* (no such table: chronicle), which ends the thread
ReadSelect ==
    /\ lastRead.pc = "select"
    /\ lastRead.todo # <<>>
    /\ lastRead' =
          IF Head(lastRead.todo) \in DOMAIN store
          THEN [lastRead EXCEPT
                  !.todo = Tail(lastRead.todo),
                  !.rows = lastRead.rows
                              \o SelectBetween(store[Head(lastRead.todo)],
                                               lastRead.start, lastRead.end)]
          ELSE [lastRead EXCEPT !.pc = "raised", !.todo = <<>>]
    /\ UNCHANGED <<envs, queue, unfinished, writer, writerExc, batch, window,
                   store, blobs, conns, clock, uuid, flushPc, flushSnap, history,
                   shutdownPc, windowAge, gate, inner, commit,
                   outsideGate>>

\* the loop is over: the thread returns results and the await of
\* read_by_time_range gives them to the caller
ReadDone ==
    /\ lastRead.pc = "select"
    /\ lastRead.todo = <<>>
    /\ lastRead' = [lastRead EXCEPT !.pc = "returned", !.valid = TRUE]
    /\ UNCHANGED <<envs, queue, unfinished, writer, writerExc, batch, window,
                   store, blobs, conns, clock, uuid, flushPc, flushSnap, history,
                   shutdownPc, windowAge, gate, inner, commit,
                   outsideGate>>

\* the caller of read_by_time_range goes on, with the list or with the
\* exception of the thread, once the event loop runs it
ReadReturn ==
    /\ lastRead.pc \in {"returned", "raised"}
    /\ commit.pc = "none"
    /\ lastRead' = NoRead
    /\ UNCHANGED <<envs, queue, unfinished, writer, writerExc, batch, window,
                   store, blobs, conns, clock, uuid, flushPc, flushSnap, history,
                   shutdownPc, windowAge, gate, inner, commit,
                   outsideGate>>

Next ==
    \/ \E cls \in GateClasses : NewGate(cls)
    \/ \E arg \in ArgsOver(Shapes) : AppendOne(arg)
    \/ \E args \in ListsOf(ArgsOver(Shapes)) : AppendMany(args)
    \/ WriterGet
    \/ WaitForGet
    \/ WriterAccumulate
    \/ WindowElapse
    \/ WriterCommit
    \/ Flush
    \/ Tick

Spec == Init /\ [][Next]_vars

\* producers that hand their envelopes over through append_many only
NextMany ==
    \/ \E cls \in GateClasses : NewGate(cls)
    \/ \E args \in ListsOf(ArgsOver(Shapes)) : AppendMany(args)
    \/ WriterGet
    \/ WaitForGet
    \/ WriterAccumulate
    \/ WindowElapse
    \/ WriterCommit
    \/ Flush
    \/ Tick

SpecMany == Init /\ [][NextMany]_vars

\* the gate fed with envelopes that have an id and a timestamp, each dict
\* handed over once, and its range reads
NextRead ==
    \/ \E cls \in GateClasses : NewGate(cls)
    \/ \E arg \in FreshArgs(ShapesRead) : AppendOne(arg)
    \/ \E args \in ListsOf(FreshArgs(ShapesRead)) : AppendMany(args)
    \/ WriterGet
    \/ WaitForGet
    \/ WriterAccumulate
    \/ WindowElapse
    \/ WriterCommit
    \/ WriteBatchBegin
    \/ CommitCreateFile
    \/ CommitSchema
    \/ CommitGroup
    \/ \E s \in ReadTimes, e \in ReadTimes : ReadByTimeRange(s, e)
    \/ ReadExists
    \/ ReadSelect
    \/ ReadDone
    \/ ReadReturn

SpecRead == Init /\ [][NextRead]_vars

\* the gate fed with envelopes that carry binary payloads
NextBlob ==
    \/ \E cls \in GateClasses : NewGate(cls)
    \/ \E arg \in FreshArgs(ShapesBlob) : AppendOne(arg)
    \/ \E args \in ListsOf(FreshArgs(ShapesBlob)) : AppendMany(args)
    \/ WriterGet
    \/ WaitForGet
    \/ WriterAccumulate
    \/ WindowElapse
    \/ WriterCommit
    \/ Flush

SpecBlob == Init /\ [][NextBlob]_vars

\* a producer's burst: append / append_many calls that all run before the
\* writer task takes the first envelope of its next batch
BurstAppend(args) ==
    /\ writer # "batching"
    /\ AppendMany(args)

\* wait_for(self._queue.get(), remaining) times out: the window (at least
\* one second, __init__) ends with nothing left to take from the queue
DrainedWindowElapse ==
    /\ queue = <<>>
    /\ WindowElapse

\* envelopes of a burst: two partitions, a repeated id
ShapesBurst == {EnvA, EnvB, EnvRaw}

\* the gate fed in bursts, the writer draining the queue within its window
NextBurst ==
    \/ \E cls \in GateClasses : NewGate(cls)
    \/ \E args \in ListsOf(FreshArgs(ShapesBurst)) : BurstAppend(args)
    \/ WriterGet
    \/ WaitForGet
    \/ WriterAccumulate
    \/ DrainedWindowElapse
    \/ WriterCommit
    \/ Flush

SpecBurst == Init /\ [][NextBurst]_vars

\* envelopes with ids of their own: three of one partition, one of another
ShapesOrder == {EnvA2, EnvB, EnvEmpty, EnvRaw}

\* the gate fed with them, each dict handed over once
NextOrder ==
    \/ \E cls \in GateClasses : NewGate(cls)
    \/ \E arg \in FreshArgs(ShapesOrder) : AppendOne(arg)
    \/ \E args \in ListsOf(FreshArgs(ShapesOrder)) : AppendMany(args)
    \/ WriterGet
    \/ WaitForGet
    \/ WriterAccumulate
    \/ WindowElapse
    \/ WriterCommit

SpecOrder == Init /\ [][NextOrder]_vars

\* the write locks held by the gate's cached connections, as a connection
\* of another gate meets them: a partition whose cached connection is inside
\* a transaction refuses the other connection's write (database is locked)
LockedBy(cn) == [path \in {q \in DOMAIN cn : cn[q].intx} |-> cn[path]]

\* save_event with a gate that could be made: a temporary gate prepares a
\* copy of the event, writes it with _write_batch through connections of
\* its own and closes them
SaveEventWrites(arg) ==
    /\ arg.ref = 0
    /\ gate = "ready"
    /\ \E payload \in {PreparePayload(arg.p, Now, PyUuid(uuid + 1))},
          used \in {IF PayloadNeedsId(arg.p) THEN uuid + 1 ELSE uuid} :
          \E res \in {WriteBatch(<<1>>, <<payload>>, Now, used, store,
                                 LockedBy(conns), blobs)} :
             /\ store' = res.store
             /\ blobs' = res.blobs
             /\ uuid' = res.uuid
    /\ UNCHANGED <<envs, queue, unfinished, writer, writerExc, batch, window,
                   conns, clock, flushPc, flushSnap, history, lastRead,
                   shutdownPc, windowAge, gate, inner, commit,
                   outsideGate>>

\* save_event(event) called where no event loop is running (a sensor's
\* sampling thread).  Its first line, _get_default_gate, calls
\* ChronicleGate(...) when _DEFAULT_GATE is None or has another base path,
\* and its no-loop branch calls ChronicleGate(...) for the temporary gate:
\* the class named there is the one chronicle_gate.py defines, which has
\* abstract methods left, whatever class the application made its own gate
\* from.  Either call raises TypeError to the caller before _prepare_payload
\* and _write_batch: nothing is written, no connection is opened, the
\* queue and the writer task are not touched, at whatever point the gate's
\* writer or a reading thread is
SaveEventNoLoop(arg) ==
    /\ arg.ref = 0
    /\ IsAbstract("ChronicleGate")
    /\ saveExc' = "TypeError"
    /\ UNCHANGED <<gateVars, sensorVars, monitorVars, clientVars, serviceVars>>

\* the gate of the event loop with sensors saving events from their threads
\* and a caller of read_by_time_range, whose ranges start in the first month
\* and end in each of the months the envelopes fall in
NextSave ==
    \/ \E cls \in GateClasses : NewGate(cls)
    \/ \E arg \in FreshArgs(ShapesOrder) : AppendOne(arg)
    \/ \E args \in ListsOf(FreshArgs(ShapesOrder)) : AppendMany(args)
    \/ WriterGet
    \/ WaitForGet
    \/ WriterAccumulate
    \/ WindowElapse
    \/ WriterCommit
    \/ \E arg \in FreshArgs(ShapesOrder) : SaveEventNoLoop(arg)
    \/ WriteBatchBegin
    \/ CommitCreateFile
    \/ CommitSchema
    \/ CommitGroup
    \/ \E e \in ReadTimes : ReadByTimeRange(TsOf(2025, 11, 1, 0), e)
    \/ ReadExists
    \/ ReadSelect
    \/ ReadDone
    \/ ReadReturn

SpecSave == Init /\ [][NextSave]_vars

(***************************************************************************)
(* The batch window of _writer_loop, in seconds of loop time                *)
(* The writer is runnable whenever the queue has an envelope for it, and    *)
(* _write_batch is synchronous: time passes only while the writer waits     *)
(* in wait_for with the queue empty.                                        *)
(***************************************************************************)
\* a second passes while the writer waits in wait_for for the next envelope
WindowTick ==
    /\ writer = "batching"
    /\ window = "open"
    /\ inner.pc = "active"
    /\ queue = <<>>
    /\ ~WindowOver(windowAge)
    /\ windowAge <= FlushInterval
    /\ windowAge' = windowAge + 1
    /\ UNCHANGED <<envs, queue, unfinished, writer, writerExc, batch, window,
                   store, blobs, conns, clock, uuid, flushPc, flushSnap, history,
                   lastRead, shutdownPc, gate, inner, commit,
                   outsideGate>>

\* the timeout of wait_for comes when the window is over
TimedWindowElapse ==
    /\ WindowOver(windowAge)
    /\ WindowElapse

\* the gate under a trickle of envelopes, with the time of its window
NextWindow ==
    \/ \E cls \in GateClasses : NewGate(cls)
    \/ \E arg \in FreshArgs(ShapesOrder) : AppendOne(arg)
    \/ WriterGet
    \/ WaitForGet
    \/ WriterAccumulate
    \/ WindowTick
    \/ TimedWindowElapse
    \/ WriterCommit

SpecWindow == Init /\ [][NextWindow]_vars

\* self._writer_task after shutdown's cancel() and await: a task that is
\* not done is cancelled, a task that is done is left as it ended
CancelWriterTask(w) == IF w \in {"waiting", "batching"} THEN "cancelled" ELSE w

\* _close_connections: every cached connection is closed, the cache cleared
CloseConnections(cn) == <<>>

\* self._writer_task and not self._writer_task.done()
WriterAlive(w) == w \in {"waiting", "batching"}

\* ChronicleGate.shutdown(), up to its first suspension.  join() suspends
\* only while envelopes are unfinished, and `await self._writer_task` only
\* for a writer that is not done: with nothing unfinished the call goes on
\* to cancel() the writer and waits for it, and with no live writer either
\* it closes the connections and returns in one step
Shutdown ==
    /\ gate = "ready"
    /\ shutdownPc \in {"idle", "returned"}
    /\ flushPc # "waiting"
    /\ shutdownPc' = IF unfinished > 0 THEN "flushing"
                     ELSE IF WriterAlive(writer) THEN "cancelling"
                     ELSE "returned"
    /\ conns' = IF unfinished = 0 /\ ~WriterAlive(writer)
                THEN CloseConnections(conns) ELSE conns
    /\ flushSnap' = Len(history)
    /\ flushPc' = IF unfinished = 0 THEN "returned" ELSE "waiting"
    /\ ~lastRead.valid
    /\ UNCHANGED <<envs, queue, unfinished, writer, writerExc, batch, window,
                   store, blobs, clock, uuid, history, lastRead,
                   windowAge, gate, inner, commit,
                   outsideGate>>

\* ChronicleGate.shutdown(), resumed once its flush() has returned: a
\* writer task that is not done is cancelled and awaited; with no such task
\* the connections are closed and the call returns
ShutdownStop ==
    /\ ShutdownRunnable
    /\ shutdownPc' = IF WriterAlive(writer) THEN "cancelling" ELSE "returned"
    /\ conns' = IF WriterAlive(writer) THEN conns ELSE CloseConnections(conns)
    /\ ~lastRead.valid
    /\ UNCHANGED <<envs, queue, unfinished, writer, writerExc, batch, window,
                   store, blobs, clock, uuid, flushPc, flushSnap, history,
                   lastRead, windowAge, gate, inner, commit,
                   outsideGate>>

\* the step of the writer task after cancel(): CancelledError is raised at
\* its await, the task ends and shutdown() is made runnable.  An envelope
\* put meanwhile stays in the queue; a batch being collected is dropped
WriterCancelled ==
    /\ shutdownPc = "cancelling"
    /\ writer' = CancelWriterTask(writer)
    /\ batch' = IF writer = "batching" THEN <<>> ELSE batch
    /\ window' = IF writer = "batching" THEN "closed" ELSE window
    /\ inner' = NoInner
    /\ shutdownPc' = "closing"
    /\ ~lastRead.valid
    /\ UNCHANGED <<envs, queue, unfinished, writerExc, store, blobs, conns,
                   clock, uuid, flushPc, flushSnap, history, lastRead,
                   windowAge, gate, commit,
                   outsideGate>>

\* ChronicleGate.shutdown(), resumed after `await self._writer_task`:
\* _close_connections() and return.  A producer that ran since the writer
\* ended has started a new writer task, which is left running
ShutdownClose ==
    /\ shutdownPc = "closing"
    /\ conns' = CloseConnections(conns)
    /\ shutdownPc' = "returned"
    /\ ~lastRead.valid
    /\ UNCHANGED <<envs, queue, unfinished, writer, writerExc, batch, window,
                   store, blobs, clock, uuid, flushPc, flushSnap, history,
                   lastRead, windowAge, gate, inner, commit,
                   outsideGate>>

\* the gate fed with envelopes whose timestamp has to be resolved, while
\* time passes between append and commit
NextTime ==
    \/ \E cls \in GateClasses : NewGate(cls)
    \/ \E arg \in FreshArgs(ShapesTime) : AppendOne(arg)
    \/ \E args \in ListsOf(FreshArgs(ShapesTime)) : AppendMany(args)
    \/ WriterGet
    \/ WaitForGet
    \/ WriterAccumulate
    \/ WindowElapse
    \/ WriterCommit
    \/ Tick

SpecTime == Init /\ [][NextTime]_vars

\* the gate with its producers and a caller of shutdown()
NextShutdown ==
    \/ \E cls \in GateClasses : NewGate(cls)
    \/ \E arg \in FreshArgs(ShapesBurst) : AppendOne(arg)
    \/ \E args \in ListsOf(FreshArgs(ShapesBurst)) : AppendMany(args)
    \/ WriterGet
    \/ WaitForGet
    \/ WriterAccumulate
    \/ WindowElapse
    \/ WriterCommit
    \/ Shutdown
    \/ ShutdownStop
    \/ WriterCancelled
    \/ ShutdownClose

SpecShutdown == Init /\ [][NextShutdown]_vars

\* the gate with producers that may stop at any moment and callers of
\* flush() and shutdown(); the event loop runs every task that is runnable
\* and every timeout that is due
NextFlush ==
    \/ \E cls \in GateClasses : NewGate(cls)
    \/ \E arg \in FreshArgs(ShapesBurst) : AppendOne(arg)
    \/ \E args \in ListsOf(FreshArgs(ShapesBurst)) : AppendMany(args)
    \/ WriterGet
    \/ WaitForGet
    \/ WriterAccumulate
    \/ WindowElapse
    \/ WriterCommit
    \/ Flush
    \/ Shutdown
    \/ ShutdownStop
    \/ WriterCancelled
    \/ ShutdownClose

\* weak fairness of WriterCommit, stated on its guard: _write_batch always
\* ends, and the writer holds no batch after it, so a writer that is
\* scheduled is not left with a batch that is due for ever
SpecFlush ==
    /\ Init
    /\ [][NextFlush]_vars
    /\ WF_vars(WriterGet)
    /\ WF_vars(WaitForGet)
    /\ WF_vars(WriterAccumulate)
    /\ WF_vars(WindowElapse)
    /\ []<>~CommitDue
    /\ WF_vars(ShutdownStop)
    /\ WF_vars(WriterCancelled)
    /\ WF_vars(ShutdownClose)

(***************************************************************************)
(* Sensor registry, adapters and SensorManager                             *)
(*   registry : the entries of _SENSOR_REGISTRY in insertion order, each   *)
(*              [sensor_id, sensor]                                        *)
(*   running  : the adapters whose is_running() returns True               *)
(***************************************************************************)
\* the adapter instances of the process
Adapters == {"p", "q"}

\* sensor._name: every adapter of the process is an instance of the one
\* class of the factory, WindowFocusSensor, whose __init__ passes
\* name="WindowFocusSensor"
NameOf(a) == "WindowFocusSensor"

\* the sensor_id arguments of register_sensor; "" stands for None
SensorIds == {"", "s"}

\* the ids an entry can be registered under
ResolvedIds == {"s"} \cup {NameOf(a) : a \in Adapters}

\* the enable arguments of toggleSensor; "none" stands for None
Enables == {"true", "false", "none"}

\* adapter.is_running()
IsRunning(run, a) == a \in run

\* adapter.start() returning ok: the adapters running afterwards
AdapterStart(run, a, ok) == IF ok THEN run \cup {a} ELSE run

\* adapter.stop(graceful=True) returning ok: the adapters running afterwards
AdapterStop(run, a, ok) == IF ok THEN run \ {a} ELSE run

\* sensor_id in _SENSOR_REGISTRY
Registered(reg, id) == \E i \in 1..Len(reg) : reg[i].sensor_id = id

\* get_sensor(sensor_id): the adapter, "none" for None
GetSensor(reg, id) ==
    IF Registered(reg, id)
    THEN (CHOOSE e \in {reg[i] : i \in 1..Len(reg)} : e.sensor_id = id).sensor
    ELSE "none"

\* list_sensors(): the entries in the order of the dict
ListSensors(reg) == reg

\* register_sensor that rebinds an id that is taken
RegisterSensorRebinds(reg, a, sensor_id) ==
    LET resolved_id == IF sensor_id # "" THEN sensor_id ELSE NameOf(a)
    IN [registry |-> [i \in 1..Len(reg) |->
                        IF reg[i].sensor_id = resolved_id
                        THEN [sensor_id |-> resolved_id, sensor |-> a]
                        ELSE reg[i]]
                     \o (IF Registered(reg, resolved_id) THEN <<>>
                         ELSE <<[sensor_id |-> resolved_id, sensor |-> a]>>),
        raised |-> FALSE]

\* register_sensor(sensor, sensor_id): the registry afterwards and whether
\* the call raised ValueError
RegisterSensorIn(reg, a, sensor_id) ==
    LET resolved_id == IF sensor_id # "" THEN sensor_id ELSE NameOf(a)
    IN IF Registered(reg, resolved_id) /\ GetSensor(reg, resolved_id) # a
       THEN [registry |-> reg, raised |-> TRUE]
       ELSE IF Registered(reg, resolved_id)
       THEN [registry |-> reg, raised |-> FALSE]
       ELSE [registry |-> Append(reg, [sensor_id |-> resolved_id,
                                       sensor |-> a]),
             raised |-> FALSE]

IsNotEntryOf(id, e) == e.sensor_id # id

\* what unregister_sensor(sensor_id) returns: the adapter popped, "none"
\* for None
UnregisterReturn(reg, id) == GetSensor(reg, id)

\* unregister_sensor(sensor_id): _SENSOR_REGISTRY.pop(sensor_id, None)
UnregisterSensorIn(reg, id) ==
    SelectSeq(reg, LAMBDA e : IsNotEntryOf(id, e))

\* the record of one start() call: the entry and what start() returned
StartCall(entry, ok) ==
    [sensor_id |-> entry.sensor_id, sensor |-> entry.sensor, ok |-> ok]

\* start_all that gives up at the first start() that fails
RECURSIVE StartAllStopsAtFailure(_, _, _, _, _, _)
StartAllStopsAtFailure(entries, i, des, run, oks, calls) ==
    IF i > Len(entries)
    THEN [desired |-> des, running |-> run, calls |-> calls]
    ELSE IF IsRunning(run, entries[i].sensor)
    THEN StartAllStopsAtFailure(entries, i + 1,
                                des \cup {entries[i].sensor_id}, run, oks,
                                calls)
    ELSE IF entries[i].sensor \notin oks
    THEN [desired |-> des \cup {entries[i].sensor_id}, running |-> run,
          calls |-> calls \cup {StartCall(entries[i], FALSE)}]
    ELSE StartAllStopsAtFailure(
            entries, i + 1, des \cup {entries[i].sensor_id},
            AdapterStart(run, entries[i].sensor, TRUE), oks,
            calls \cup {StartCall(entries[i], TRUE)})

\* start_all with the id added to the desired-running set only when the
\* adapter ends up running
RECURSIVE StartAllDesiredOnSuccess(_, _, _, _, _, _)
StartAllDesiredOnSuccess(entries, i, des, run, oks, calls) ==
    IF i > Len(entries)
    THEN [desired |-> des, running |-> run, calls |-> calls]
    ELSE IF IsRunning(run, entries[i].sensor)
    THEN StartAllDesiredOnSuccess(entries, i + 1,
                                  des \cup {entries[i].sensor_id}, run, oks,
                                  calls)
    ELSE StartAllDesiredOnSuccess(
            entries, i + 1,
            IF entries[i].sensor \in oks
            THEN des \cup {entries[i].sensor_id} ELSE des,
            AdapterStart(run, entries[i].sensor, entries[i].sensor \in oks),
            oks,
            calls \cup {StartCall(entries[i], entries[i].sensor \in oks)})

\* the loop of SensorManager.start_all over entries from position i; oks
\* are the adapters whose start() succeeds
RECURSIVE StartAllFrom(_, _, _, _, _, _)
StartAllFrom(entries, i, des, run, oks, calls) ==
    IF i > Len(entries)
    THEN [desired |-> des, running |-> run, calls |-> calls]
    ELSE IF IsRunning(run, entries[i].sensor)
    THEN StartAllFrom(entries, i + 1, des \cup {entries[i].sensor_id}, run,
                      oks, calls)
    ELSE StartAllFrom(
            entries, i + 1, des \cup {entries[i].sensor_id},
            AdapterStart(run, entries[i].sensor, entries[i].sensor \in oks),
            oks,
            calls \cup {StartCall(entries[i], entries[i].sensor \in oks)})

\* the loop of SensorManager.stop_all over entries from position i: the
\* adapters running afterwards; oks are the adapters whose stop() succeeds
RECURSIVE StopAllFrom(_, _, _, _)
StopAllFrom(entries, i, run, oks) ==
    IF i > Len(entries)
    THEN run
    ELSE IF IsRunning(run, entries[i].sensor)
    THEN StopAllFrom(entries, i + 1,
                     AdapterStop(run, entries[i].sensor,
                                 entries[i].sensor \in oks), oks)
    ELSE StopAllFrom(entries, i + 1, run, oks)

\* stop_all with the desired-running set keeping the ids whose adapter is
\* still running
StopAllKeepsFailed(entries, des, run, oks) ==
    [desired |-> {id \in des :
                    \E i \in 1..Len(entries) :
                        /\ entries[i].sensor_id = id
                        /\ entries[i].sensor \in StopAllFrom(entries, 1, run, oks)},
     running |-> StopAllFrom(entries, 1, run, oks)]

\* SensorManager.stop_all: the stop loop, then _desired_running.clear()
StopAllResult(entries, des, run, oks) ==
    [desired |-> {}, running |-> StopAllFrom(entries, 1, run, oks)]

\* check_health that only reports the adapters that are not running
CheckHealthReportOnly(entries, i, des, run, oks, calls) ==
    [running |-> run, calls |-> calls]

\* the loop of SensorManager.check_health over entries from position i
RECURSIVE CheckHealthFrom(_, _, _, _, _, _)
CheckHealthFrom(entries, i, des, run, oks, calls) ==
    IF i > Len(entries)
    THEN [running |-> run, calls |-> calls]
    ELSE IF entries[i].sensor_id \notin des
    THEN CheckHealthFrom(entries, i + 1, des, run, oks, calls)
    ELSE IF IsRunning(run, entries[i].sensor)
    THEN CheckHealthFrom(entries, i + 1, des, run, oks, calls)
    ELSE CheckHealthFrom(
            entries, i + 1, des,
            AdapterStart(run, entries[i].sensor, entries[i].sensor \in oks),
            oks,
            calls \cup {StartCall(entries[i], entries[i].sensor \in oks)})

\* register_sensor(sensor, sensor_id=sensor_id)
RegisterSensor(a, sensor_id) ==
    /\ \E res \in {RegisterSensorIn(registry, a, sensor_id)} :
          /\ registry' = res.registry
          /\ lastOp' = IF res.raised THEN "register_raised" ELSE "register"
    /\ startCalls' = {}
    /\ reply' = NoReply
    /\ published' = <<>>
    /\ UNCHANGED <<running, desired, unregistered, sinceStopAll, outsideSensors>>

\* unregister_sensor(sensor_id), as the unregisterSensor mutation calls it
UnregisterSensor(id) ==
    /\ registry' = UnregisterSensorIn(registry, id)
    /\ unregistered' = IF Registered(registry, id)
                       THEN unregistered \cup {id} ELSE unregistered
    /\ startCalls' = {}
    /\ lastOp' = "unregister"
    /\ reply' = NoReply
    /\ published' = <<>>
    /\ UNCHANGED <<running, desired, sinceStopAll, outsideSensors>>

\* SensorManager.start_all()
StartAll(oks) ==
    /\ \E res \in {StartAllFrom(ListSensors(registry), 1, desired, running,
                                oks, {})} :
          /\ desired' = res.desired
          /\ running' = res.running
          /\ startCalls' = res.calls
    /\ unregistered' = {id \in unregistered : ~Registered(registry, id)}
    /\ sinceStopAll' = FALSE
    /\ lastOp' = "start_all"
    /\ reply' = NoReply
    /\ published' = <<>>
    /\ UNCHANGED <<registry, outsideSensors>>

\* SensorManager.stop_all()
StopAll(oks) ==
    /\ \E res \in {StopAllResult(ListSensors(registry), desired, running,
                                 oks)} :
          /\ desired' = res.desired
          /\ running' = res.running
    /\ startCalls' = {}
    /\ sinceStopAll' = TRUE
    /\ lastOp' = "stop_all"
    /\ reply' = NoReply
    /\ published' = <<>>
    /\ UNCHANGED <<registry, unregistered, outsideSensors>>

\* the body of SensorManager.check_health()
HealthCheck(oks) ==
    /\ \E res \in {CheckHealthFrom(ListSensors(registry), 1, desired,
                                   running, oks, {})} :
          /\ running' = res.running
          /\ startCalls' = res.calls
    /\ lastOp' = "check_health"
    /\ reply' = NoReply
    /\ published' = <<>>
    /\ UNCHANGED <<registry, desired, unregistered, sinceStopAll>>

\* SensorManager.check_health(), called on its own
CheckHealth(oks) ==
    /\ HealthCheck(oks)
    /\ UNCHANGED outsideSensors

\* SensorActionResult(status_code, message, error_stack, sensors); the
\* message is a function of the other fields and is left out, a sensor node
\* is given by its id and its running flag
SensorActionResult(status_code, error_stack, sensors) ==
    [status_code |-> status_code, error_stack |-> error_stack,
     sensors |-> sensors]

\* SensorNode.from_entry(SensorEntry(sensor_id, sensor))
SensorNode(run, id, a) == [id |-> id, running |-> IsRunning(run, a)]

\* SensorStatusEvent(sensor_id, status, message)
SensorStatusEvent(id, status, message) ==
    [sensor_id |-> id, status |-> status, message |-> message]

\* desired_state = enable; if None: not sensor.is_running()
DesiredState(run, a, enable) ==
    enable = "true" \/ (enable = "none" /\ ~IsRunning(run, a))

\* the start() or stop() call of a mutation on adapter a, returning ok
Switch(run, a, enable, ok) ==
    IF DesiredState(run, a, enable) THEN AdapterStart(run, a, ok)
    ELSE AdapterStop(run, a, ok)

\* the error a failed call adds: start_failed or stop_failed
SwitchError(run, a, enable) ==
    IF DesiredState(run, a, enable) THEN "start_failed" ELSE "stop_failed"

\* "running" if sensor.is_running() else "stopped"
StatusOf(run, a) == IF IsRunning(run, a) THEN "running" ELSE "stopped"

\* Mutation.toggle_sensor(sensor_id, enable) with the adapter's call
\* returning ok: the adapters running afterwards, the result returned and
\* the events published
ToggleSensorOn(reg, run, id, enable, ok) ==
    IF GetSensor(reg, id) = "none"
    THEN [running |-> run,
          reply |-> SensorActionResult(404, <<<<"sensor_not_found">>>>, <<>>),
          published |-> <<>>]
    ELSE LET a == GetSensor(reg, id)
             after == Switch(run, a, enable, ok)
             errors == IF ok THEN <<>> ELSE <<<<SwitchError(run, a, enable)>>>>
         IN [running |-> after,
             reply |-> SensorActionResult(IF errors = <<>> THEN 200 ELSE 500,
                                          errors, <<SensorNode(after, id, a)>>),
             published |-> <<SensorStatusEvent(
                                id, StatusOf(after, a),
                                IF errors = <<>> THEN "sensor updated"
                                ELSE "sensor update failed")>>]

\* the loop of Mutation.bulk_action from the i-th id on; oks are the
\* adapters whose start() and stop() return True
RECURSIVE BulkFrom(_, _, _, _, _, _, _, _, _)
BulkFrom(reg, ids, i, enable, oks, run, errors, updated, events) ==
    IF i > Len(ids)
    THEN [running |-> run,
          reply |-> SensorActionResult(IF errors = <<>> THEN 200 ELSE 207,
                                       errors, updated),
          published |-> events]
    ELSE IF GetSensor(reg, ids[i]) = "none"
    THEN BulkFrom(reg, ids, i + 1, enable, oks, run,
                  Append(errors, <<"sensor_not_found", ids[i]>>), updated,
                  events)
    ELSE LET a == GetSensor(reg, ids[i])
             ok == a \in oks
             after == Switch(run, a, enable, ok)
         IN BulkFrom(reg, ids, i + 1, enable, oks, after,
                     IF ok THEN errors
                     ELSE Append(errors, <<SwitchError(run, a, enable),
                                           ids[i]>>),
                     Append(updated, SensorNode(after, ids[i], a)),
                     Append(events, SensorStatusEvent(
                        ids[i], StatusOf(after, a),
                        IF IsRunning(after, a) = DesiredState(run, a, enable)
                        THEN "sensor updated" ELSE "sensor update failed")))

\* Mutation.bulk_action(sensor_ids, enable); <<>> stands for None and []
BulkActionOn(reg, run, ids, enable, oks) ==
    IF ids = <<>>
    THEN [running |-> run,
          reply |-> SensorActionResult(400, <<<<"sensor_ids_empty">>>>, <<>>),
          published |-> <<>>]
    ELSE BulkFrom(reg, ids, 1, enable, oks, run, <<>>, <<>>, <<>>)

\* Mutation.toggle_sensor(sensor_id, enable): start() or stop() on the
\* registered adapter, returning ok; 404 when the id is not registered
\* the bound on the status events published to subscribers
MaxStatusEvents == 3

\* a _publish_status that reaches the first subscriber only
PublishStatusToFirst(subs, queues, events) ==
    [v \in Viewers |-> IF subs # <<>> /\ v = subs[1]
                       THEN queues[v] \o events ELSE queues[v]]

\* _publish_status(event) for each of events in turn: put_nowait on the
\* queue of every subscriber in the list
PublishStatus(subs, queues, events) ==
    [v \in Viewers |-> IF \E i \in 1..Len(subs) : subs[i] = v
                       THEN queues[v] \o events ELSE queues[v]]

\* the events of a mutation reach the subscribers' queues
Publishing(events) ==
    /\ subQueue' = PublishStatus(statusSubs, subQueue, events)
    /\ statusLog' = IF statusSubs = <<>> THEN statusLog
                    ELSE statusLog \o events
    /\ UNCHANGED <<statusSubs, subGot, subSince, logVars, poolVars>>

ToggleSensor(id, enable, ok) ==
    /\ \E res \in {ToggleSensorOn(registry, running, id, enable, ok)} :
          /\ running' = res.running
          /\ reply' = res.reply
          /\ published' = res.published
          /\ Publishing(res.published)
    /\ startCalls' = {}
    /\ lastOp' = "toggle"
    /\ UNCHANGED <<registry, desired, unregistered, sinceStopAll, monitorVars,
                   gateVars, saveVars, clientVars>>

\* Mutation.bulk_action(sensor_ids, enable)
BulkAction(ids, enable, oks) ==
    /\ \E res \in {BulkActionOn(registry, running, ids, enable, oks)} :
          /\ running' = res.running
          /\ reply' = res.reply
          /\ published' = res.published
          /\ Publishing(res.published)
    /\ startCalls' = {}
    /\ lastOp' = "bulk"
    /\ UNCHANGED <<registry, desired, unregistered, sinceStopAll, monitorVars,
                   gateVars, saveVars, clientVars>>

\* longest sensor_ids list handed to bulkAction
MaxBulk == 2

\* the sensor_ids arguments of bulkAction
IdLists == UNION {[1..n -> ResolvedIds] : n \in 0..MaxBulk}

\* a running adapter stops on its own (its sampling loop died)
AdapterDies(a) ==
    /\ IsRunning(running, a)
    /\ running' = running \ {a}
    /\ startCalls' = {}
    /\ lastOp' = "dies"
    /\ reply' = NoReply
    /\ published' = <<>>
    /\ UNCHANGED <<registry, desired, unregistered, sinceStopAll, outsideSensors>>

\* the registry and the manager under their callers, with adapters that
\* can fail to start, fail to stop, and die
NextSensors ==
    \/ \E a \in Adapters, sensor_id \in SensorIds : RegisterSensor(a, sensor_id)
    \/ \E id \in ResolvedIds : UnregisterSensor(id)
    \/ \E oks \in SUBSET Adapters : StartAll(oks)
    \/ \E oks \in SUBSET Adapters : StopAll(oks)
    \/ \E oks \in SUBSET Adapters : CheckHealth(oks)
    \/ \E id \in ResolvedIds, enable \in Enables, ok \in BOOLEAN :
            ToggleSensor(id, enable, ok)
    \/ \E a \in Adapters : AdapterDies(a)

SpecSensors == Init /\ [][NextSensors]_vars

\* the control boundary: the toggleSensor and bulkAction mutations over a
\* registry that grows and adapters that can fail and die
NextControl ==
    \/ \E a \in Adapters, sensor_id \in SensorIds : RegisterSensor(a, sensor_id)
    \/ \E id \in ResolvedIds, enable \in Enables, ok \in BOOLEAN :
            ToggleSensor(id, enable, ok)
    \/ \E ids \in IdLists, enable \in Enables, oks \in SUBSET Adapters :
            BulkAction(ids, enable, oks)
    \/ \E a \in Adapters : AdapterDies(a)

SpecControl == Init /\ [][NextControl]_vars

(***************************************************************************)
(* The sensorStatus subscription of the schema                             *)
(***************************************************************************)
\* v has a sensorStatus generator that is running
Subscribed(subs, v) == \E i \in 1..Len(subs) : subs[i] = v

IsNotViewer(v, w) == w # v

\* a step of a subscription is the latest operation, and no mutation
NoMutation(op) ==
    /\ lastOp' = op
    /\ startCalls' = {}
    /\ reply' = NoReply
    /\ published' = <<>>

\* Subscription.sensor_status up to its first `await queue.get()`: a new
\* queue, and a _Subscriber appended to _SENSOR_SUBSCRIBERS
SubscribeStatus(v) ==
    /\ ~Subscribed(statusSubs, v)
    /\ statusSubs' = Append(statusSubs, v)
    /\ subQueue' = [subQueue EXCEPT ![v] = <<>>]
    /\ subGot' = [subGot EXCEPT ![v] = <<>>]
    /\ subSince' = [subSince EXCEPT ![v] = Len(statusLog)]
    /\ NoMutation("subscribe")
    /\ UNCHANGED <<statusLog, outsideStatus>>

\* event = await queue.get(); yield event
StatusNext(v) ==
    /\ Subscribed(statusSubs, v)
    /\ subQueue[v] # <<>>
    /\ subGot' = [subGot EXCEPT ![v] = Append(@, Head(subQueue[v]))]
    /\ subQueue' = [subQueue EXCEPT ![v] = Tail(@)]
    /\ NoMutation("yield")
    /\ UNCHANGED <<statusSubs, subSince, statusLog, outsideStatus>>

\* the generator is closed (the client unsubscribed or went away): the
\* finally removes the subscriber from the list; its queue and the record
\* of what it yielded go with it, and so does the record of what was
\* published once nobody is subscribed
EndStatus(v) ==
    /\ Subscribed(statusSubs, v)
    /\ statusSubs' = SelectSeq(statusSubs, LAMBDA w : IsNotViewer(v, w))
    /\ subQueue' = [subQueue EXCEPT ![v] = <<>>]
    /\ subGot' = [subGot EXCEPT ![v] = <<>>]
    /\ subSince' = IF Len(statusSubs) = 1 THEN [w \in Viewers |-> 0]
                   ELSE [subSince EXCEPT ![v] = 0]
    /\ statusLog' = IF Len(statusSubs) = 1 THEN <<>> ELSE statusLog
    /\ NoMutation("unsubscribe")
    /\ UNCHANGED outsideStatus

\* the id lists of bulkAction under subscribers: an id, an id twice, an
\* id with one nothing is registered under, two ids
StatusIdLists == {<<"s">>, <<"s", "s">>, <<"s", "zz">>,
                  <<"WindowFocusSensor", "s">>}

\* adapter p under the id "s", adapter q under its name
StatusRegistrations == {<<"p", "s">>, <<"q", "">>}

\* every start() and stop() of a bulkAction fails, or every one succeeds
StatusOks == {{}, Adapters}

\* the mutations under sensorStatus subscribers that come and go
NextStatus ==
    \/ \E r \in StatusRegistrations : RegisterSensor(r[1], r[2])
    \/ \E id \in ResolvedIds, enable \in Enables, ok \in BOOLEAN :
            /\ Len(statusLog) < MaxStatusEvents
            /\ ToggleSensor(id, enable, ok)
    \/ \E ids \in StatusIdLists, enable \in Enables, oks \in StatusOks :
            /\ Len(statusLog) + Len(ids) <= MaxStatusEvents
            /\ BulkAction(ids, enable, oks)
    \/ \E v \in Viewers : SubscribeStatus(v)
    \/ \E v \in Viewers : StatusNext(v)
    \/ \E v \in Viewers : EndStatus(v)

SpecStatus == Init /\ [][NextStatus]_vars

(***************************************************************************)
(* The log feed: log_broadcast and the logStream subscription              *)
(*   a payload in logQueue is [id, audience]: its number, and the viewers  *)
(*   that were subscribed when it was enqueued and have been since         *)
(***************************************************************************)
\* LOG_BROADCAST_MAXSIZE = 50
LOG_BROADCAST_MAXSIZE == 50

\* the bound on the payloads enqueued one at a time
MaxLogEvents == 3

\* the payloads logged while the process starts, before any client
StartupLogs == LOG_BROADCAST_MAXSIZE - 1

\* _enqueue_log_broadcast(payload): put_nowait; on QueueFull the oldest
\* payload is taken out and the put is repeated
EnqueueLogBroadcast(q, payload) ==
    IF Len(q) < LOG_BROADCAST_MAXSIZE
    THEN Append(q, payload)
    ELSE Append(Tail(q), payload)

LogPayload(n, audience) == [id |-> n, audience |-> audience]

\* _enqueue_log_broadcast for the payloads numbered from+1 .. to, one
\* after the other: each put beyond the bound drops the oldest payload,
\* which leaves the newest LOG_BROADCAST_MAXSIZE of them
EnqueueLogs(q, from, to, audience) ==
    LET all == q \o [i \in 1..(to - from) |-> LogPayload(from + i, audience)]
    IN IF Len(all) <= LOG_BROADCAST_MAXSIZE
       THEN all
       ELSE SubSeq(all, Len(all) - LOG_BROADCAST_MAXSIZE + 1, Len(all))

\* the log records of the start of the process, with no client yet
LogStartup ==
    /\ logSeq = 0
    /\ logSubs = {}
    /\ logHeld.pc = "none"
    /\ logQueue' = EnqueueLogs(logQueue, 0, StartupLogs, {})
    /\ logSeq' = StartupLogs
    /\ logTaken' = NoLog
    /\ UNCHANGED <<logSubs, logLoop, logHeld, outsideLog>>

\* one log record reaches _broadcast_sink.  With _log_broadcast_loop set
\* and running, _enqueue_log_broadcast is a callback of that loop
\* (call_soon_threadsafe) and one step.  With no loop set the sink's thread
\* calls it itself: put_nowait, and on QueueFull the thread goes on to
\* get_nowait while the loop's thread can use the queue
LogEmit ==
    /\ logHeld.pc = "none"
    /\ IF logSeq >= StartupLogs
       THEN logSeq - StartupLogs < MaxLogEvents
       ELSE logSeq < MaxLogEvents
    /\ IF logLoop \/ Len(logQueue) < LOG_BROADCAST_MAXSIZE
       THEN /\ logQueue' = EnqueueLogBroadcast(logQueue,
                                    LogPayload(logSeq + 1, logSubs))
            /\ UNCHANGED logHeld
       ELSE /\ logHeld' = [pc |-> "full", id |-> logSeq + 1]
            /\ UNCHANGED logQueue
    /\ logSeq' = logSeq + 1
    /\ logTaken' = NoLog
    /\ UNCHANGED <<logSubs, logLoop, outsideLog>>

\* _enqueue_log_broadcast in the sink's thread, after QueueFull:
\* get_nowait() and task_done(), QueueEmpty suppressed
LogDrop ==
    /\ logHeld.pc = "full"
    /\ logQueue' = IF logQueue = <<>> THEN logQueue ELSE Tail(logQueue)
    /\ logHeld' = [logHeld EXCEPT !.pc = "dropped"]
    /\ logTaken' = NoLog
    /\ UNCHANGED <<logSubs, logSeq, logLoop, outsideLog>>

\* _enqueue_log_broadcast in the sink's thread: the second
\* put_nowait(payload), QueueFull suppressed
LogReput ==
    /\ logHeld.pc = "dropped"
    /\ logQueue' = IF Len(logQueue) < LOG_BROADCAST_MAXSIZE
                   THEN Append(logQueue, LogPayload(logHeld.id, logSubs))
                   ELSE logQueue
    /\ logHeld' = NoHeldLog
    /\ logTaken' = NoLog
    /\ UNCHANGED <<logSubs, logSeq, logLoop, outsideLog>>

\* Subscription.log_stream up to its first `await log_broadcast.get()`
SubscribeLog(v) ==
    /\ v \notin logSubs
    /\ logSubs' = logSubs \cup {v}
    /\ logLoop' = TRUE
    /\ logTaken' = NoLog
    /\ UNCHANGED <<logQueue, logSeq, logHeld, outsideLog>>

\* payload = await log_broadcast.get(); yield LogEvent(**payload)
LogNext(v) ==
    /\ v \in logSubs
    /\ logQueue # <<>>
    /\ logTaken' = [to |-> v, id |-> Head(logQueue).id,
                    audience |-> Head(logQueue).audience]
    /\ logQueue' = Tail(logQueue)
    /\ UNCHANGED <<logSubs, logSeq, logLoop, logHeld, outsideLog>>

\* the logStream generator of v is closed
EndLog(v) ==
    /\ v \in logSubs
    /\ logSubs' = logSubs \ {v}
    /\ logQueue' = [i \in 1..Len(logQueue) |->
                        LogPayload(logQueue[i].id, logQueue[i].audience \ {v})]
    /\ logTaken' = NoLog
    /\ UNCHANGED <<logSeq, logLoop, logHeld, outsideLog>>

\* the log feed under viewers that come and go
NextLog ==
    \/ LogStartup
    \/ LogEmit
    \/ LogDrop
    \/ LogReput
    \/ \E v \in Viewers : SubscribeLog(v)
    \/ \E v \in Viewers : LogNext(v)
    \/ \E v \in Viewers : EndLog(v)

SpecLog == Init /\ [][NextLog]_vars

(***************************************************************************)
(* HTTPConnectionPool of the test CLI, under threads calling               *)
(* GraphQLHTTPClient.request.  A connection is named by the value of       *)
(* _created after its creation.  A thread can be switched out between the  *)
(* test `self._created < self._max_size` and `self._created += 1`.         *)
(***************************************************************************)
\* HTTPConnectionPool.__init__: max_size: int = 2
PoolMaxSize == 2

\* self._pool.get_nowait() / self._pool.get() on a LifoQueue that is not
\* empty: the connection put last
PoolTop(idle) == idle[Len(idle)]

PoolPop(idle) == SubSeq(idle, 1, Len(idle) - 1)

\* acquire(): conn = self._pool.get_nowait() succeeds
AcquireIdle(t) ==
    /\ pPc[t] = "idle"
    /\ pIdle # <<>>
    /\ pHeld' = [pHeld EXCEPT ![t] = PoolTop(pIdle)]
    /\ pIdle' = PoolPop(pIdle)
    /\ pPc' = [pPc EXCEPT ![t] = "using"]
    /\ UNCHANGED <<pCreated, pAlive, outsidePool>>

\* acquire(): get_nowait() raises Empty and releases the queue's mutex;
\* other threads run before the test on self._created
AcquireEmpty(t) ==
    /\ pPc[t] = "idle"
    /\ pIdle = <<>>
    /\ pPc' = [pPc EXCEPT ![t] = "empty"]
    /\ UNCHANGED <<pCreated, pIdle, pAlive, pHeld, outsidePool>>

\* acquire(), in the except Empty clause: the test
\* `self._created < self._max_size`, whatever has come back to the queue
\* since get_nowait() raised
AcquireTest(t) ==
    /\ pPc[t] = "empty"
    /\ pPc' = [pPc EXCEPT ![t] = IF pCreated < PoolMaxSize
                                 THEN "checked" ELSE "blocked"]
    /\ UNCHANGED <<pCreated, pIdle, pAlive, pHeld, outsidePool>>

\* acquire(): conn = self._create_connection(); self._created += 1
AcquireCreate(t) ==
    /\ pPc[t] = "checked"
    /\ pCreated' = pCreated + 1
    /\ pAlive' = pAlive \cup {pCreated + 1}
    /\ pHeld' = [pHeld EXCEPT ![t] = pCreated + 1]
    /\ pPc' = [pPc EXCEPT ![t] = "using"]
    /\ UNCHANGED <<pIdle, outsidePool>>

\* acquire(): conn = self._pool.get() returns once a connection is put
AcquireBlocked(t) ==
    /\ pPc[t] = "blocked"
    /\ pIdle # <<>>
    /\ pHeld' = [pHeld EXCEPT ![t] = PoolTop(pIdle)]
    /\ pIdle' = PoolPop(pIdle)
    /\ pPc' = [pPc EXCEPT ![t] = "using"]
    /\ UNCHANGED <<pCreated, pAlive, outsidePool>>

\* the with block of request() ends normally: put_nowait(conn), and
\* conn.close() when the LifoQueue is full
RequestDone(t) ==
    /\ pPc[t] = "using"
    /\ pIdle' = IF Len(pIdle) < PoolMaxSize
                THEN Append(pIdle, pHeld[t]) ELSE pIdle
    /\ pAlive' = IF Len(pIdle) < PoolMaxSize
                 THEN pAlive ELSE pAlive \ {pHeld[t]}
    /\ pHeld' = [pHeld EXCEPT ![t] = 0]
    /\ pPc' = [pPc EXCEPT ![t] = "idle"]
    /\ UNCHANGED <<pCreated, outsidePool>>

\* conn.request / getresponse / read raises inside the with block:
\* conn.close(), and the exception goes to the caller
RequestRaises(t) ==
    /\ pPc[t] = "using"
    /\ pAlive' = pAlive \ {pHeld[t]}
    /\ pHeld' = [pHeld EXCEPT ![t] = 0]
    /\ pPc' = [pPc EXCEPT ![t] = "idle"]
    /\ UNCHANGED <<pCreated, pIdle, outsidePool>>

\* the pool under the threads of the CLI
NextPool ==
    \/ \E t \in Threads : AcquireIdle(t)
    \/ \E t \in Threads : AcquireEmpty(t)
    \/ \E t \in Threads : AcquireTest(t)
    \/ \E t \in Threads : AcquireCreate(t)
    \/ \E t \in Threads : AcquireBlocked(t)
    \/ \E t \in Threads : RequestDone(t)
    \/ \E t \in Threads : RequestRaises(t)

SpecPool == Init /\ [][NextPool]_vars

(***************************************************************************)
(* create_sensor: registration from a sensor type and a config             *)
(***************************************************************************)
\* the sensor_type arguments; _SENSOR_FACTORY has the one key "window_focus"
SensorTypes == {"", " ", "window_focus", " Window_Focus", "mouse"}

\* sensor_type.strip().lower()
NormalizedType(sensor_type) ==
    CASE sensor_type = " " -> ""
      [] sensor_type = " Window_Focus" -> "window_focus"
      [] OTHER -> sensor_type

\* normalized_type in _SENSOR_FACTORY
InFactory(normalized_type) == normalized_type = "window_focus"

\* the config arguments, as Python values
Configs == {PyNone, PyDict("{}", 0), PyDict("{\"k\": 1}", 1), PyList(0),
            PyList(1), PyNum(0), PyStr("x")}

\* isinstance(config, dict)
IsDict(config) == config.t = "dict"

\* config or {}
ResolvedConfig(config) == PyOr(config, PyDict("{}", 0))

\* create_sensor's test of the config: isinstance(config or {}, dict)
ConfigAccepted(config) == IsDict(ResolvedConfig(config))

\* create_sensor(sensor_type, sensor_id=sensor_id, config=config) with a as
\* the instance sensor_cls() makes and initOk what its initialize() returns:
\* the registry afterwards and the exception raised, "none" for a return
CreateSensorIn(reg, sensor_type, a, sensor_id, config, initOk) ==
    IF sensor_type = "" THEN [registry |-> reg, raised |-> "ValueError"]
    ELSE IF ~InFactory(NormalizedType(sensor_type))
    THEN [registry |-> reg, raised |-> "ValueError"]
    ELSE IF ~ConfigAccepted(config)
    THEN [registry |-> reg, raised |-> "ValueError"]
    ELSE IF ~initOk THEN [registry |-> reg, raised |-> "RuntimeError"]
    ELSE IF RegisterSensorIn(reg, a, sensor_id).raised
    THEN [registry |-> reg, raised |-> "ValueError"]
    ELSE [registry |-> RegisterSensorIn(reg, a, sensor_id).registry,
          raised |-> "none"]

\* the instances sensor_cls() can make: not registered, not running
FreshAdapters == {a \in Adapters :
                    /\ a \notin running
                    /\ \A i \in 1..Len(registry) : registry[i].sensor # a}

CreateSensor(sensor_type, a, sensor_id, config, initOk) ==
    /\ a \in FreshAdapters
    /\ \E res \in {CreateSensorIn(registry, sensor_type, a, sensor_id,
                                  config, initOk)} :
          /\ registry' = res.registry
          /\ lastOp' = IF res.raised = "none" THEN "create_sensor"
                       ELSE "create_sensor_raised"
    /\ startCalls' = {}
    /\ reply' = NoReply
    /\ published' = <<>>
    /\ UNCHANGED <<running, desired, unregistered, sinceStopAll, outsideSensors>>

NextCreate ==
    \/ \E sensor_type \in SensorTypes, a \in Adapters, sensor_id \in SensorIds,
          config \in Configs, initOk \in BOOLEAN :
            CreateSensor(sensor_type, a, sensor_id, config, initOk)
    \/ \E id \in ResolvedIds : UnregisterSensor(id)
    \/ \E oks \in SUBSET Adapters : StartAll(oks)
    \/ \E oks \in SUBSET Adapters : StopAll(oks)
    \/ \E a \in Adapters : AdapterDies(a)

SpecCreate == Init /\ [][NextCreate]_vars

(***************************************************************************)
(* SensorManager.monitor_health under the stop signal of run()             *)
(* Time is counted in ticks; a task that can run does so before the event  *)
(* loop sleeps, so no tick passes while monitor_health is runnable.        *)
(***************************************************************************)
\* the longest interval monitor_health is started with, in ticks
MaxInterval == 2

\* wait_for(stop_event.wait(), timeout=interval) raises TimeoutError
TimedOut(w, ival) == w >= ival

\* wait_for(stop_event.wait(), ...) returns because the event is set
WakesOnStop(stop) == stop

\* run(): manager.start_all(), then
\* asyncio.create_task(manager.monitor_health(STOP_EVENT, interval)), with
\* no await in between
MonitorStart(ival, oks) ==
    /\ monPc = "none"
    /\ \E res \in {StartAllFrom(ListSensors(registry), 1, desired, running,
                                oks, {})} :
          /\ desired' = res.desired
          /\ running' = res.running
          /\ startCalls' = res.calls
    /\ unregistered' = {id \in unregistered : ~Registered(registry, id)}
    /\ sinceStopAll' = FALSE
    /\ lastOp' = "start_all"
    /\ reply' = NoReply
    /\ published' = <<>>
    /\ monPc' = "test"
    /\ interval' = ival
    /\ waited' = 0
    /\ UNCHANGED <<registry, stopSet, loopAsleep, sinceStop, outsideManager>>

\* monitor_health: `while not stop_event.is_set()` finds the signal not
\* set; the call of check_health() is next, with no await in between
MonitorTest ==
    /\ monPc = "test"
    /\ ~stopSet
    /\ monPc' = "check"
    /\ UNCHANGED <<stopSet, loopAsleep, interval, waited, sinceStop, sensorVars, outsideManager>>

\* monitor_health: self.check_health() runs, whatever the signal has
\* become since the loop test, and wait_for is entered
MonitorCheck(oks) ==
    /\ monPc = "check"
    /\ HealthCheck(oks)
    /\ monPc' = "waiting"
    /\ waited' = 0
    /\ UNCHANGED <<stopSet, loopAsleep, interval, sinceStop, outsideManager>>

\* monitor_health: the loop test finds the signal set; the coroutine returns
MonitorReturn ==
    /\ monPc = "test"
    /\ stopSet
    /\ monPc' = "returned"
    /\ UNCHANGED <<stopSet, loopAsleep, interval, waited, sinceStop, sensorVars, outsideManager>>

\* monitor_health: wait_for ends, by the event (the loop being awake) or
\* by TimeoutError (continue); either way the loop test comes next
MonitorWake ==
    /\ monPc = "waiting"
    /\ WakesOnStop(stopSet) \/ TimedOut(waited, interval)
    /\ monPc' = "test"
    /\ loopAsleep' = FALSE
    /\ UNCHANGED <<stopSet, interval, waited, sinceStop, sensorVars, outsideManager>>

\* how install_signal_handlers installs _handle_signal:
\* loop.add_signal_handler, or signal.signal where the loop raises
\* NotImplementedError for it
SignalHandlers == {"add_signal_handler", "signal.signal"}

\* can _handle_signal run now.  Installed with loop.add_signal_handler it
\* is a callback of the event loop and runs between two steps of the
\* tasks, so never between the loop test of monitor_health and its
\* check_health(); installed with signal.signal it runs in the main thread
\* between any two bytecodes
HandlerCanRun(handler) == handler = "add_signal_handler" => monPc # "check"

\* does the event loop, asleep in its selector until the timeout of the
\* wait_for of monitor_health, sleep on when the handler sets the event.
\* Run as a callback of the loop, stop_event.set() finds the loop awake and
\* the waiter runs next.  Run by signal.signal in the main thread, it
\* schedules the waiter with call_soon, which wakes no sleeping loop: the
\* waiter runs when something else wakes the loop (another task's timer,
\* the wakeup socket of a proactor loop) or when the timeout of wait_for
\* does
SleepsOn(handler, pc) == handler = "signal.signal" /\ pc = "waiting"

\* install_signal_handlers._handle_signal: stop_event.set()
SetStop(handler) ==
    /\ ~stopSet
    /\ HandlerCanRun(handler)
    /\ stopSet' = TRUE
    /\ loopAsleep' = SleepsOn(handler, monPc)
    /\ UNCHANGED <<monPc, interval, waited, sinceStop, sensorVars, outsideManager>>

\* one tick passes while monitor_health sleeps in wait_for
TimePasses ==
    /\ monPc = "waiting"
    /\ ~WakesOnStop(stopSet) \/ loopAsleep
    /\ ~TimedOut(waited, interval)
    /\ waited' = waited + 1
    /\ sinceStop' = IF stopSet THEN sinceStop + 1 ELSE sinceStop
    /\ UNCHANGED <<stopSet, loopAsleep, monPc, interval, sensorVars, outsideManager>>

\* the calls with arguments from S that the event loop can run now: none
\* while monitor_health is between its loop test and check_health(), where
\* it has the loop (there is no await between the two)
OnLoop(S) == IF monPc = "check" THEN {} ELSE S

\* run(): sensors registered and started, the health monitor as a task, the
\* stop signal, stop_all, and adapters that die (in their own threads)
NextMonitor ==
    \/ \E a \in OnLoop(Adapters), sensor_id \in SensorIds :
            RegisterSensor(a, sensor_id)
    \/ \E oks \in OnLoop(SUBSET Adapters) : StartAll(oks)
    \/ \E oks \in OnLoop(SUBSET Adapters) : StopAll(oks)
    \/ \E a \in Adapters : AdapterDies(a)
    \/ \E ival \in 1..MaxInterval, oks \in SUBSET Adapters :
            MonitorStart(ival, oks)
    \/ MonitorTest
    \/ \E oks \in SUBSET Adapters : MonitorCheck(oks)
    \/ MonitorReturn
    \/ MonitorWake
    \/ \E handler \in SignalHandlers : SetStop(handler)
    \/ TimePasses

SpecMonitor == Init /\ [][NextMonitor]_vars

(***************************************************************************)
(* The subscription clients: GraphQLClient (dashboard) and                 *)
(* GraphQLWebSocketClient (command line), each on one websocket            *)
(*   a message is [type, id]; id is "op" for the id of the client's        *)
(*   subscribe, "other" for another id, "none" when the message has none   *)
(***************************************************************************)
\* the message types of the protocol
KnownTypes == {"connection_ack", "connection_error", "ping", "pong", "next",
               "error", "complete"}

\* what a server can send: the known types and one outside them
MsgTypes == KnownTypes \cup {"bogus"}

MsgIds == {"op", "other", "none"}

Messages == [type : MsgTypes, id : MsgIds]

\* the clients with their callers: GraphQLClient under the dashboard's
\* subscribe_updates, GraphQLWebSocketClient under handle_log_stream or
\* handle_status_stream, GraphQLWebSocketClient under
\* LogSubscriptionWorker._subscribe
ClientKinds == {"dashboard", "cli", "worker"}

\* pings and payloads received on one connection, at most
MaxMessages == 3

\* the timeout of GraphQLWebSocketClient, in ticks
MaxAckWait == 2

\* what a receive loop does with one message: the messages it sends and
\* how it goes on ("loop", "return", "yield", "raise", "break")
Handling(sends, outcome) == [send |-> sends, outcome |-> outcome]

\* GraphQLClient._await_connection_ack on one received message
AwaitConnectionAck(msg) ==
    IF msg.type = "connection_ack" THEN Handling(<<>>, "return")
    ELSE IF msg.type = "connection_error" THEN Handling(<<>>, "raise")
    ELSE Handling(<<>>, "loop")

\* _await_ack taking any reply of the server for the acknowledgement
AwaitAckAnyReply(msg) ==
    IF msg.type = "ping" THEN Handling(<<>>, "loop")
    ELSE Handling(<<>>, "return")

\* GraphQLWebSocketClient._await_ack on one received message
AwaitAck(msg) ==
    IF msg.type = "connection_ack" THEN Handling(<<>>, "return")
    ELSE IF msg.type = "connection_error" THEN Handling(<<>>, "raise")
    ELSE Handling(<<>>, "loop")

\* the body of `async for message in websocket` in
\* GraphQLClient._subscribe_ws on one received message
SubscribeWsOn(msg) ==
    IF msg.type = "ping" THEN Handling(<<"pong">>, "loop")
    ELSE IF msg.type = "next" THEN Handling(<<>>, "yield")
    ELSE IF msg.type = "error" THEN Handling(<<>>, "raise")
    ELSE IF msg.type = "complete" THEN Handling(<<>>, "break")
    ELSE Handling(<<>>, "loop")

\* the body of the receive loop of GraphQLWebSocketClient.subscribe on one
\* received message
SubscribeOn(msg) ==
    IF msg.id # "op" THEN Handling(<<>>, "loop")
    ELSE IF msg.type = "next" THEN Handling(<<>>, "yield")
    ELSE IF msg.type = "error" THEN Handling(<<>>, "raise")
    ELSE IF msg.type = "complete" THEN Handling(<<>>, "break")
    ELSE Handling(<<>>, "loop")

\* GraphQLClient._safe_complete: what is sent when the loop is left
SafeComplete(open) == IF open THEN <<"complete">> ELSE <<>>

\* the finally clause of GraphQLWebSocketClient.subscribe
FinallyComplete(open) == <<"complete">>

\* the handling of a message received while waiting for connection_ack
HandshakeOn(kind, msg) ==
    IF kind = "dashboard" THEN AwaitConnectionAck(msg) ELSE AwaitAck(msg)

\* the handling of a message received after subscribe
SubscriptionOn(kind, msg) ==
    IF kind = "dashboard" THEN SubscribeWsOn(msg) ELSE SubscribeOn(msg)

\* what the client sends when its receive loop is left
OnLeave(kind, open) ==
    IF kind = "dashboard" THEN SafeComplete(open) ELSE FinallyComplete(open)

\* what the caller does once the client's block has been left the given
\* way (exit) with the worker's stop flag as given: a CancelledError ends
\* the task; the worker that left on its _stop_event has returned; the
\* worker's `except Exception` returns when _stop_event is set and otherwise
\* prints the error and sleeps, any other caller has the error; after the
\* end of the stream the worker's loop tests _stop_event and returns or
\* goes on to the next __aenter__, any other caller is done
EndOf(kind, exit, stop) ==
    CASE exit = "cancel" -> "cancelled"
      [] exit = "return" -> "stopped"
      [] exit # "cancel" /\ exit # "return" /\ kind = "worker"
            /\ stop # "clear" -> "stopped"
      [] exit = "raise" /\ (kind # "worker" \/ stop = "clear") -> "failed"
      [] exit = "break" /\ kind = "worker" /\ stop = "clear" -> "connecting"
      [] OTHER -> "done"

\* the client object GraphQLWebSocketClient(...) or the _subscribe_ws call
\* is new: no websocket yet, nothing sent, received or yielded
NewClient ==
    /\ cOpen' = FALSE
    /\ cSent' = <<>>
    /\ cYielded' = 0
    /\ cPings' = 0
    /\ cLast' = NoMessage
    /\ cHeld' = NoMessage
    /\ cWaited' = 0

\* a caller opens a subscription and waits in websockets.connect: the
\* dashboard's subscribe_updates, a stream command of the CLI, or a
\* LogSubscriptionWorker that has been started
ConnectBegin(kind) ==
    /\ \/ cPc \in {"idle", "done", "cancelled", "stopped"}
       \/ cPc = "failed" /\ cKind # "worker"
    /\ cKind' = kind
    /\ cPc' = "connecting"
    /\ NewClient
    /\ cExit' = "none"
    /\ cStop' = "clear"
    /\ UNCHANGED outsideClient

\* websockets.connect returns the websocket and the client sends
\* connection_init on it; the command-line client then waits in the first
\* wait_for of _await_ack
ConnectDone ==
    /\ cPc = "connecting"
    /\ cPc' = "handshake"
    /\ cOpen' = TRUE
    /\ cSent' = <<"connection_init">>
    /\ cWaited' = 0
    /\ UNCHANGED <<cKind, cYielded, cPings, cLast, cExit, cHeld, cStop,
                   outsideClient>>

\* websockets.connect raises (the server refuses, the opening handshake
\* fails or times out): the client has no websocket and the error goes to
\* the caller
ConnectFails ==
    /\ cPc = "connecting"
    /\ cPc' = EndOf(cKind, "raise", cStop)
    /\ UNCHANGED <<cKind, cOpen, cSent, cYielded, cPings, cLast, cExit, cHeld,
                   cStop, cWaited, outsideClient>>

\* GraphQLWebSocketClient._await_ack receives through
\* asyncio.wait_for(self._ws.recv(), timeout), which up to Python 3.11
\* runs recv() in a task of its own: a message that arrives makes that
\* task runnable, and _await_ack is resumed with it some callbacks later.
\* (From Python 3.12 on wait_for awaits recv() in the caller's task, which
\* is this step followed at once by HandshakeReceive.)
AwaitAckTake(msg) ==
    /\ cKind \in {"cli", "worker"}
    /\ cPc = "handshake"
    /\ cHeld = NoMessage
    /\ cPings + cYielded < MaxMessages
    /\ cHeld' = msg
    /\ UNCHANGED <<cKind, cPc, cOpen, cSent, cYielded, cPings, cLast, cExit,
                   cStop, cWaited, outsideClient>>

\* a tick passes while _await_ack waits in wait_for and nothing has
\* arrived for it
ClientTick ==
    /\ cKind \in {"cli", "worker"}
    /\ cPc = "handshake"
    /\ cHeld = NoMessage
    /\ cWaited < MaxAckWait
    /\ cWaited' = cWaited + 1
    /\ UNCHANGED <<cKind, cPc, cOpen, cSent, cYielded, cPings, cLast, cExit,
                   cHeld, cStop, outsideClient>>

\* the wait_for of _await_ack times out with nothing received: TimeoutError
\* leaves _await_ack and __aenter__, and __aexit__ is not run, so the
\* websocket stays as it is
AwaitAckTimeout ==
    /\ cKind \in {"cli", "worker"}
    /\ cPc = "handshake"
    /\ cHeld = NoMessage
    /\ cWaited = MaxAckWait
    /\ cPc' = EndOf(cKind, "raise", cStop)
    /\ UNCHANGED <<cKind, cOpen, cSent, cYielded, cPings, cLast, cExit, cHeld,
                   cStop, cWaited, outsideClient>>

\* the client handles a message while it waits for connection_ack: the
\* dashboard client the message it receives, the command-line client the
\* message wait_for hands it.  On connection_ack the client goes on to
\* send subscribe.  On connection_error the dashboard client raises inside
\* `async with websockets.connect`, whose exit awaits the close of the
\* websocket; the command-line client raises out of __aenter__, and
\* __aexit__ is not run.  On any other message the loop goes round, the
\* command-line client into a new wait_for with the full timeout
HandshakeReceive(msg) ==
    /\ cPc = "handshake"
    /\ cExit = "none"
    /\ IF cKind = "dashboard"
       THEN cPings + cYielded < MaxMessages
       ELSE cHeld = msg
    /\ cHeld' = NoMessage
    /\ cLast' = msg
    /\ cPings' = IF msg.type = "ping" THEN cPings + 1 ELSE cPings
    /\ cWaited' = 0
    /\ \E h \in {HandshakeOn(cKind, msg)} :
          /\ cSent' = cSent \o h.send
                        \o (IF h.outcome = "return"
                            THEN <<"subscribe">> ELSE <<>>)
          /\ cPc' = CASE h.outcome = "return" -> "subscribed"
                      [] h.outcome = "raise" /\ cKind # "dashboard" ->
                            EndOf(cKind, "raise", cStop)
                      [] OTHER -> "handshake"
          /\ cExit' = IF h.outcome = "raise" /\ cKind = "dashboard"
                      THEN "raise" ELSE "none"
    /\ UNCHANGED <<cKind, cOpen, cYielded, cStop, outsideClient>>

\* LogSubscriptionWorker._subscribe finds _stop_event set on the payload it
\* is given and returns out of `async with`
StopEventReturn(kind, stop, outcome) ==
    kind = "worker" /\ stop # "clear" /\ outcome = "yield"

\* a message arrives during the subscription.  When the loop is left (raise
\* on error, break on complete) the finally clause sends complete and the
\* close of the websocket is awaited: the websocket is still open and the
\* caller has not seen the outcome yet.  A payload goes to the caller at
\* once; the worker that finds _stop_event set on it returns, and
\* __aexit__ awaits the close while subscribe() is suspended at its yield,
\* so the complete of its finally clause is not sent on the connection
SubscriptionReceive(msg) ==
    /\ cPc = "subscribed"
    /\ cExit = "none"
    /\ cPings + cYielded < MaxMessages
    /\ cLast' = msg
    /\ cPings' = IF msg.type = "ping" THEN cPings + 1 ELSE cPings
    /\ \E h \in {SubscriptionOn(cKind, msg)} :
          /\ cSent' = cSent \o h.send
                        \o (IF h.outcome \in {"raise", "break"}
                            THEN OnLeave(cKind, cOpen) ELSE <<>>)
          /\ cExit' = IF h.outcome \in {"raise", "break"} THEN h.outcome
                      ELSE IF StopEventReturn(cKind, cStop, h.outcome)
                           THEN "return"
                           ELSE "none"
          /\ cYielded' = IF h.outcome = "yield" THEN cYielded + 1 ELSE cYielded
    /\ UNCHANGED <<cKind, cPc, cOpen, cHeld, cStop, cWaited, outsideClient>>

\* GraphQLClient._subscribe_ws leaves `async with websockets.connect`: after
\* connection_error in the handshake, or after the asyncio.sleep(0) of
\* _safe_complete; the exit closes the websocket, then the error or the end
\* of the stream reaches the caller
SubscribeWsExit ==
    /\ cKind = "dashboard"
    /\ cPc \in {"handshake", "subscribed"}
    /\ cExit # "none"
    /\ cOpen' = FALSE
    /\ cPc' = EndOf(cKind, cExit, cStop)
    /\ cExit' = "none"
    /\ UNCHANGED <<cKind, cSent, cYielded, cPings, cLast, cHeld, cStop,
                   cWaited, outsideClient>>

\* GraphQLWebSocketClient.__aexit__, run by the caller's `async with`: the
\* close of the websocket it awaited is done, then the error, the end of
\* the stream, the cancellation or the worker's return leaves the block.
\* The worker whose stream ended with _stop_event clear is in the next
\* round of its loop at once, with a new client in websockets.connect
Aexit ==
    /\ cKind \in {"cli", "worker"}
    /\ cPc = "subscribed"
    /\ cExit # "none"
    /\ cPc' = EndOf(cKind, cExit, cStop)
    /\ cExit' = "none"
    /\ IF EndOf(cKind, cExit, cStop) = "connecting"
       THEN NewClient
       ELSE /\ cOpen' = FALSE
            /\ UNCHANGED <<cSent, cYielded, cPings, cLast, cHeld, cWaited>>
    /\ UNCHANGED <<cKind, cStop, outsideClient>>

\* the asyncio.sleep(1.0) of the worker's except clause is over: the loop
\* test finds _stop_event clear and the next round is in websockets.connect
\* with a new client, or finds it set and the worker returns
SleepEnds ==
    /\ cKind = "worker"
    /\ cPc = "failed"
    /\ IF cStop = "clear"
       THEN /\ cPc' = "connecting"
            /\ NewClient
       ELSE /\ cPc' = "stopped"
            /\ UNCHANGED <<cOpen, cSent, cYielded, cPings, cLast, cHeld,
                           cWaited>>
    /\ UNCHANGED <<cKind, cExit, cStop, outsideClient>>

\* LogSubscriptionWorker.stop(), called from another thread while the
\* worker's task is alive (in websockets.connect, in the handshake,
\* subscribed, closing, or asleep after an error): _stop_event.set() and
\* call_soon_threadsafe(self._task.cancel)
WorkerStop ==
    /\ cKind = "worker"
    /\ cPc \in {"connecting", "handshake", "subscribed", "failed"}
    /\ cStop = "clear"
    /\ cStop' = "set"
    /\ UNCHANGED <<cKind, cPc, cOpen, cSent, cYielded, cPings, cLast, cExit,
                   cHeld, cWaited, outsideClient>>

\* the loop runs the task.cancel() that stop() scheduled.  Waiting in
\* websockets.connect, the CancelledError ends the task with no websocket.
\* Waiting in _await_ack with no message arrived, it leaves __aenter__,
\* and __aexit__ is not run.  With a message arrived for wait_for's task,
\* wait_for (Python 3.11) returns the message instead of raising: the
\* cancellation is lost and the task goes on.  Waiting in subscribe(), the
\* finally clause sends complete before the error goes on to __aexit__.
\* Waiting in the close() of __aexit__, the CancelledError leaves it with
\* the close not done.  Asleep after an error, the task ends.  A task that
\* has returned is left as it is
TaskCancel ==
    /\ cKind = "worker"
    /\ cPc \in {"connecting", "handshake", "subscribed", "failed", "stopped"}
    /\ cStop = "set"
    /\ cStop' = "cancelled"
    /\ CASE cPc = "subscribed" /\ cExit = "none" ->
              /\ cSent' = cSent \o FinallyComplete(cOpen)
              /\ cExit' = "cancel"
              /\ UNCHANGED cPc
         [] cPc = "subscribed" /\ cExit # "none" ->
              /\ cPc' = EndOf(cKind, "cancel", cStop)
              /\ cExit' = "none"
              /\ UNCHANGED cSent
         [] cPc = "handshake" /\ cHeld = NoMessage ->
              /\ cPc' = EndOf(cKind, "cancel", cStop)
              /\ UNCHANGED <<cSent, cExit>>
         [] cPc \in {"connecting", "failed"} ->
              /\ cPc' = EndOf(cKind, "cancel", cStop)
              /\ UNCHANGED <<cSent, cExit>>
         [] OTHER ->
              UNCHANGED <<cPc, cSent, cExit>>
    /\ UNCHANGED <<cKind, cOpen, cYielded, cPings, cLast, cHeld, cWaited,
                   outsideClient>>

\* a client, its caller and the server it is connected to
NextClient ==
    \/ \E kind \in ClientKinds : ConnectBegin(kind)
    \/ ConnectDone
    \/ ConnectFails
    \/ \E msg \in Messages : AwaitAckTake(msg)
    \/ ClientTick
    \/ AwaitAckTimeout
    \/ \E msg \in Messages : HandshakeReceive(msg)
    \/ \E msg \in Messages : SubscriptionReceive(msg)
    \/ SubscribeWsExit
    \/ Aexit
    \/ SleepEnds
    \/ WorkerStop
    \/ TaskCancel

SpecClient == Init /\ [][NextClient]_vars

(***************************************************************************)
(* Vocabulary of the properties                                            *)
(***************************************************************************)

\* every committed row with its place: <<partition, rowid>>
RowSlots(st) == UNION {{<<p, i>> : i \in 1..Len(st[p])} : p \in DOMAIN st}

\* the elements of a sequence
Range(seq) == {seq[i] : i \in 1..Len(seq)}

\* the id an envelope dict carries: its "id", else its "object_id"
EnvelopeId(payload) ==
    IF Has(payload, "id") THEN Get(payload, "id") ELSE Get(payload, "object_id")

\* the content an envelope dict carries, as text
EnvelopeContent(payload) ==
    SerializeContent(IF Has(payload, "content")
                     THEN Get(payload, "content")
                     ELSE Get(payload, "content_text"))

\* the i-th enqueued envelope, as its dict is now
Enqueued(i) == envs[history[i]]

\* the envelope is still in the queue, with the task of wait_for or in the
\* writer's batch
Pending(h) == h \in Range(queue) \cup Range(batch) \cup {inner.item}

\* how often the dict object h was handed to append / append_many
TimesAppended(h) == Cardinality({i \in 1..Len(history) : history[i] = h})

\* what _write_batch is about to do with the writer's batch
Outcome == WriteBatch(batch, envs, Now, uuid, store, conns, blobs)

\* this step is a _write_batch call that raises
CommitFails == writer = "batching" /\ writer' = "failed"

(***************************************************************************)
(* C1.  When flush() returns, every envelope enqueued before flush was     *)
(* called has been committed: read_by_id finds it and a read_by_time_range *)
(* covering its timestamp returns it - also in runs where a commit raises. *)
(* Stated for the envelopes that carry a non-empty id.                     *)
(***************************************************************************)
C1_FlushCommitsAll ==
    flushPc = "returned" =>
        \A i \in 1..flushSnap :
            LET e == Enqueued(i)
                ts == e["timestamp"].n
            IN Truthy(EnvelopeId(e)) =>
                /\ \A years \in YearOrders(store) :
                        ReadByIdSync(store, years, EnvelopeId(e)) # NotFound
                /\ \E r \in Range(ReadByTimeRangeSync(store, ts, ts)) :
                        r.id = EnvelopeId(e)

(***************************************************************************)
(* C2.  When _write_batch raises, the writer loop does not acknowledge the *)
(* batch: the queue's count of unfinished items is not lowered on account  *)
(* of the failed batch, and the failure is kept as the task's exception.   *)
(***************************************************************************)
C2_FailedBatchNotAcked ==
    [][CommitFails => (unfinished' = unfinished /\ writerExc' # "none")]_vars

(***************************************************************************)
(* C3.  After append_many of N envelopes with pairwise distinct ids and a  *)
(* flush(), with no commit failure, read_by_time_range over the interval   *)
(* spanned by their timestamps returns exactly N records, and each         *)
(* envelope's id and content are those of one of the records.  Stated      *)
(* for envelopes that carry a non-empty id.                                *)
(***************************************************************************)
C3_BatchDurability ==
    LET n == Len(history)
        stamps == {Enqueued(i)["timestamp"].n : i \in 1..n}
        lo == CHOOSE t \in stamps : \A u \in stamps : t <= u
        hi == CHOOSE t \in stamps : \A u \in stamps : u <= t
        got == ReadByTimeRangeSync(store, lo, hi)
    IN (/\ n > 0
        /\ flushPc = "returned"
        /\ flushSnap = n
        /\ Cardinality(RowSlots(store)) = n
        /\ \A i \in 1..n : Truthy(EnvelopeId(Enqueued(i)))
        /\ \A i, j \in 1..n :
                i # j => EnvelopeId(Enqueued(i)) # EnvelopeId(Enqueued(j)))
       => /\ Len(got) = n
          /\ \A i \in 1..n :
                \E r \in Range(got) :
                    /\ r.id = EnvelopeId(Enqueued(i))
                    /\ r.content = EnvelopeContent(Enqueued(i))

(***************************************************************************)
(* C4.  When a batch spans several partitions and one partition group      *)
(* fails: the groups committed before it stay committed and no other       *)
(* partition changes, no row of the failing group becomes visible, and the *)
(* failing group's items stay unacknowledged on the queue.                 *)
(***************************************************************************)
C4_PartitionFailureContained ==
    [][(CommitFails /\ Outcome.failed > 1) =>
        LET bad == Outcome.paths[Outcome.failed]
            before == {Outcome.paths[g] : g \in 1..(Outcome.failed - 1)}
            old(p) == IF p \in DOMAIN store THEN store[p] ELSE <<>>
        IN /\ \A p \in before :
                store'[p] = old(p) \o GroupOf(Outcome.records, p)
           /\ \A p \in (DOMAIN store') \ before : store'[p] = old(p)
           /\ store'[bad] = old(bad)
           /\ unfinished' >= Len(queue') + Len(GroupOf(Outcome.records, bad))
      ]_vars

(***************************************************************************)
(* C5.  An id-less envelope handed to append / append_many twice ends as   *)
(* two stored records with two distinct non-empty ids: once neither        *)
(* occurrence is pending, the store holds two such rows for it.            *)
(***************************************************************************)
C5_SameEnvelopeTwice ==
    \A h \in 1..Len(envs) :
        (/\ TimesAppended(h) >= 2
         /\ envs[h]["id"].s = "uuid7"
         /\ ~Pending(h))
        => \E r1, r2 \in AllRows(store) :
                /\ r1.id # r2.id
                /\ Truthy(r1.id) /\ Truthy(r2.id)
                /\ r1.content = EnvelopeContent(envs[h])
                /\ r2.content = EnvelopeContent(envs[h])

(***************************************************************************)
(* C6.  A record is stored under the id its envelope carried when append   *)
(* returned: every stored id is the id of an enqueued envelope, and when   *)
(* flush() has returned with everything committed, read_by_id with each    *)
(* envelope's id finds a record.                                           *)
(***************************************************************************)
C6_StoredIdIsEnvelopeId ==
    /\ \A r \in AllRows(store) :
            \E i \in 1..Len(history) : r.id = EnvelopeId(Enqueued(i))
    /\ (flushPc = "returned" /\ Cardinality(RowSlots(store)) >= flushSnap)
        => \A i \in 1..flushSnap :
                \A years \in YearOrders(store) :
                    ReadByIdSync(store, years, EnvelopeId(Enqueued(i)))
                        # NotFound

(***************************************************************************)
(* C7.  No two committed records of the store, in the same or in different *)
(* monthly partitions, have the same id.                                   *)
(***************************************************************************)
C7_IdUniqueAcrossStore ==
    \A a, b \in RowSlots(store) :
        a # b => store[a[1]][a[2]].id # store[b[1]][b[2]].id

(***************************************************************************)
(* C8.  read_by_time_range(start, end) returns exactly the committed       *)
(* records with start <= timestamp <= end: each of them once, no other     *)
(* record, and nothing when start > end.  "The committed records" are the  *)
(* rows of the store at some moment between the call and its return.       *)
(***************************************************************************)
C8_RangeExact ==
    lastRead.valid =>
        /\ \E st \in lastRead.stores :
              LET want == {r \in AllRows(st) :
                              /\ lastRead.start <= r.timestamp
                              /\ r.timestamp <= lastRead.end}
              IN /\ Range(lastRead.rows) = want
                 /\ Len(lastRead.rows) = Cardinality(want)
        /\ lastRead.start > lastRead.end => lastRead.rows = <<>>

(***************************************************************************)
(* C9.  The list read_by_time_range returns is sorted ascending by         *)
(* timestamp, across partitions and years.                                 *)
(***************************************************************************)
C9_RangeSorted ==
    lastRead.valid =>
        \A i, j \in 1..Len(lastRead.rows) :
            i < j => lastRead.rows[i].timestamp <= lastRead.rows[j].timestamp

\* a read over two years that returned rows a partition holds in another
\* order than by timestamp
C9_Witness ==
    /\ lastRead.valid
    /\ \E r1, r2 \in Range(lastRead.rows) :
            FromTimestamp(r1.timestamp).year # FromTimestamp(r2.timestamp).year
    /\ \E p \in DOMAIN store :
            \E i, j \in 1..Len(store[p]) :
                /\ i < j
                /\ store[p][i].timestamp > store[p][j].timestamp
                /\ store[p][i] \in Range(lastRead.rows)
                /\ store[p][j] \in Range(lastRead.rows)

(***************************************************************************)
(* C10.  read_by_time_range(start, end) opens exactly the existing         *)
(* partition databases of the months from start's month to end's month,    *)
(* each once, in calendar order, also across a year boundary.  "Existing"  *)
(* is at some moment between the call and its return.                      *)
(***************************************************************************)
C10_RangePartitions ==
    lastRead.valid =>
        LET first == ResolveMonthDbPath(lastRead.start)
            last == ResolveMonthDbPath(lastRead.end)
        IN /\ \E st \in lastRead.stores :
                LET span == {p \in DOMAIN st :
                                ~PathBefore(p, first) /\ ~PathBefore(last, p)}
                IN /\ Range(lastRead.opened) = span
                   /\ Len(lastRead.opened) = Cardinality(span)
           /\ \A i, j \in 1..Len(lastRead.opened) :
                i < j => PathBefore(lastRead.opened[i], lastRead.opened[j])

(***************************************************************************)
(* C11.  Partition resolution follows the calendar month of the timestamp: *)
(* every committed row lies in the partition whose month, from its first   *)
(* second to the first second of the next month, holds the row's stored    *)
(* timestamp; two rows of one calendar month lie in the same partition and *)
(* two rows of different calendar months in different partitions.          *)
(***************************************************************************)
\* the timestamp lies in the calendar month of partition p
InMonthOf(ts, p) ==
    /\ TsOf(p.year, p.month, 1, 0) <= ts
    /\ ts < TsOf(NextMonth(p).year, NextMonth(p).month, 1, 0)

\* the calendar months the model's timestamps can fall in
Months == {[year |-> y, month |-> m] : y \in 2025..2026, m \in 1..12}

\* two timestamps of the same calendar month
SameMonth(t1, t2) == \E p \in Months : InMonthOf(t1, p) /\ InMonthOf(t2, p)

C11_PartitionOfTimestamp ==
    /\ \A a \in RowSlots(store) :
            /\ a[1] \in Months
            /\ InMonthOf(store[a[1]][a[2]].timestamp, a[1])
    /\ \A a, b \in RowSlots(store) :
            SameMonth(store[a[1]][a[2]].timestamp, store[b[1]][b[2]].timestamp)
                <=> a[1] = b[1]

\* partitions of two years hold rows, one of them two rows of different
\* timestamps
C11_Witness ==
    /\ \E p, q \in DOMAIN store :
            p.year # q.year /\ store[p] # <<>> /\ store[q] # <<>>
    /\ \E p \in DOMAIN store :
            Len(store[p]) = 2 /\ store[p][1].timestamp # store[p][2].timestamp

(***************************************************************************)
(* C12.  Every committed record with a non-null blob_path has its blob     *)
(* file under the store root at that path, holding exactly the binary      *)
(* payload of the record's envelope; a record whose envelope carries no    *)
(* binary payload has blob_path null.  (The write of the file and the      *)
(* insert are one step of the model, so their order is not observed.)      *)
(***************************************************************************)
\* the enqueued envelopes a committed row can come from: same id, same
\* timestamp, same content
SourcesOf(r) ==
    {i \in 1..Len(history) :
        /\ EnvelopeId(Enqueued(i)) = r.id
        /\ Enqueued(i)["timestamp"].n = r.timestamp
        /\ EnvelopeContent(Enqueued(i)) = r.content}

\* the binary payload an envelope dict carries, Absent when it has none
EnvelopeBlob(payload) ==
    IF Has(payload, "blob_bytes")
    THEN payload["blob_bytes"]
    ELSE payload["content_bytes"]

C12_BlobLinkage ==
    \A r \in AllRows(store) :
        /\ SourcesOf(r) # {}
        /\ r.blob_path # PyNone =>
                /\ r.blob_path \in DOMAIN blobs
                /\ \E i \in SourcesOf(r) :
                        blobs[r.blob_path] = EnvelopeBlob(Enqueued(i))
        /\ (\A i \in SourcesOf(r) : EnvelopeBlob(Enqueued(i)) = Absent)
                => r.blob_path = PyNone

(***************************************************************************)
(* C13.  With the envelopes of a burst all enqueued before the writer      *)
(* forms its next batch and batch cap c, the writer takes them batch by    *)
(* batch in enqueue order: a batch is never empty nor larger than c, a     *)
(* batch smaller than c is the remainder (nothing is left in the queue),   *)
(* and after each batch the writer goes on to what is left in the queue,   *)
(* so that ceil(n/c) batches are formed.                                   *)
(***************************************************************************)
\* this step ends the writer's work on its batch
BatchDone == writer = "batching" /\ writer' # "batching"

C13_BurstBatches ==
    [][BatchDone =>
        LET k == Len(history) - Len(queue) - Len(batch)
        IN /\ 1 <= Len(batch) /\ Len(batch) <= MaxBatchSize
           /\ Len(batch) < MaxBatchSize => queue = <<>>
           /\ batch = SubSeq(history, k + 1, k + Len(batch))
           /\ queue' # <<>> => writer' = "waiting"
      ]_vars

(***************************************************************************)
(* C14.  When shutdown() returns, every envelope enqueued before the call  *)
(* has been committed (read_by_id finds it), the writer task has stopped,  *)
(* and the connection cache is empty.  Stated for the envelopes that carry *)
(* a non-empty id.                                                         *)
(***************************************************************************)
\* this step is the return of shutdown()
ShutdownReturns == shutdownPc # "returned" /\ shutdownPc' = "returned"

C14_ShutdownCommitsAndStops ==
    [][ShutdownReturns =>
        /\ \A i \in 1..flushSnap :
              Truthy(EnvelopeId(Enqueued(i))) =>
                  \A years \in YearOrders(store') :
                      ReadByIdSync(store', years, EnvelopeId(Enqueued(i)))
                          # NotFound
        /\ writer' \notin {"waiting", "batching"}
        /\ conns' = <<>>
      ]_vars

(***************************************************************************)
(* C15.  A record is stored with its envelope's timestamp when one is      *)
(* supplied (any number, 0 included), otherwise with its create_time,      *)
(* otherwise with the current time: append leaves every envelope with a    *)
(* timestamp (none is dropped for lacking one), and a committed batch      *)
(* stores each of its envelopes with the timestamp the envelope has had    *)
(* since append, in the partition of that timestamp.                       *)
(***************************************************************************)
\* this step is a _write_batch call that returns
CommitSucceeds == writer = "batching" /\ writer' = "waiting"

\* a row of the envelope's id holds timestamp ts in the partition of ts
StoredAt(st, payload, ts) ==
    \E a \in RowSlots(st) :
        /\ st[a[1]][a[2]].id = StrOf(EnvelopeId(payload))
        /\ st[a[1]][a[2]].timestamp = ts
        /\ a[1] = ResolveMonthDbPath(ts)

C15_TimestampKept ==
    [][/\ \A i \in 1..Len(history') :
              Has(envs'[history'[i]], "timestamp")
       /\ CommitSucceeds =>
              \A k \in 1..Len(batch) :
                  envs[batch[k]]["timestamp"].t = "num" =>
                      StoredAt(store', envs[batch[k]],
                               envs[batch[k]]["timestamp"].n)
      ]_vars

(***************************************************************************)
(* C16.  One check_health() call restores a sensor that is registered, in  *)
(* the desired-running set and not running: start() is called on its       *)
(* adapter, and when that start() succeeds the adapter is running after    *)
(* the call.                                                               *)
(***************************************************************************)
\* the entries of the registry
Entries(reg) == {reg[i] : i \in 1..Len(reg)}

C16_HealthRestores ==
    [][lastOp' = "check_health" =>
        \A e \in Entries(registry) :
            (e.sensor_id \in desired /\ ~IsRunning(running, e.sensor)) =>
                /\ \E c \in startCalls' : c.sensor = e.sensor
                /\ \A c \in startCalls' :
                        (c.sensor = e.sensor /\ c.ok) =>
                            IsRunning(running', e.sensor)
      ]_vars

\* check_health has just restarted an adapter of the desired-running set
C16_Witness ==
    /\ lastOp = "check_health"
    /\ \E c \in startCalls :
            /\ c.ok
            /\ c.sensor_id \in desired
            /\ IsRunning(running, c.sensor)

(***************************************************************************)
(* C17.  stop_all() leaves the desired-running set empty whether or not    *)
(* the stop() calls succeeded, and from then until the next start_all()    *)
(* the set stays empty and no check_health() call invokes start().         *)
(***************************************************************************)
C17_StopAllOverrides ==
    [][/\ lastOp' = "stop_all" => desired' = {}
       /\ sinceStopAll' => desired' = {}
       /\ (sinceStopAll /\ lastOp' = "check_health") =>
                (startCalls' = {} /\ running' = running)
      ]_vars

\* after a stop_all that left an adapter running (its stop() failed) and
\* with a registered adapter that is not running, check_health has run
C17_Witness ==
    /\ sinceStopAll
    /\ lastOp = "check_health"
    /\ \E e \in Entries(registry) : ~IsRunning(running, e.sensor)
    /\ \E e \in Entries(registry) : IsRunning(running, e.sensor)

(***************************************************************************)
(* C18.  After start_all() every id registered at the time of the call is  *)
(* in the desired-running set, the ids whose start() failed included, and  *)
(* start() has been called only on adapters that were not running.         *)
(***************************************************************************)
C18_StartAllDesires ==
    [][lastOp' = "start_all" =>
        /\ \A e \in Entries(registry) : e.sensor_id \in desired'
        /\ \A c \in startCalls' : ~IsRunning(running, c.sensor)
      ]_vars

\* start_all has run with one start() failing and one adapter already
\* running
C18_Witness ==
    /\ lastOp = "start_all"
    /\ \E c \in startCalls :
            ~c.ok /\ c.sensor_id \in desired /\ ~IsRunning(running, c.sensor)
    /\ \E e \in Entries(registry) :
            /\ IsRunning(running, e.sensor)
            /\ \A c \in startCalls : c.sensor # e.sensor

(***************************************************************************)
(* C19.  Unregistering an id takes it out of the health-restart cycle:     *)
(* check_health() calls start() under no id that has been unregistered,    *)
(* whatever was registered since, until a start_all() has run with the id  *)
(* registered again; and every adapter it starts is in the registry.       *)
(***************************************************************************)
C19_UnregisteredNotRestarted ==
    [][lastOp' = "check_health" =>
        \A c \in startCalls' :
            /\ c.sensor_id \notin unregistered
            /\ \E e \in Entries(registry) :
                    e.sensor_id = c.sensor_id /\ e.sensor = c.sensor
      ]_vars

(***************************************************************************)
(* C20.  Unregistration leads to the Stopped state: the adapter of an      *)
(* unregistered sensor is not running, so every running adapter can be     *)
(* reached through the registry.                                           *)
(***************************************************************************)
C20_RunningIsRegistered ==
    \A a \in running : \E e \in Entries(registry) : e.sensor = a

(***************************************************************************)
(* C21.  Once the stop signal is set, monitor_health runs no further       *)
(* check_health and returns without a tick of its interval passing; while  *)
(* the signal is not set it runs check_health once per interval: a wait    *)
(* that ends with the signal not set has lasted exactly the interval, and  *)
(* the next check_health follows it.                                       *)
(***************************************************************************)
\* this step is a check_health call made by monitor_health
MonitorChecks == monPc = "check" /\ monPc' = "waiting"

C21_MonitorStopsPromptly ==
    [][/\ MonitorChecks => ~stopSet
       /\ monPc' = "returned" => (stopSet' /\ sinceStop' = 0)
       /\ (monPc = "waiting" /\ monPc' = "test" /\ ~stopSet) =>
                waited = interval
       /\ (monPc = "test" /\ ~stopSet /\ monPc' # monPc) => monPc' = "check"
       /\ (monPc = "check" /\ monPc' # monPc) => MonitorChecks
       /\ waited' <= interval'
      ]_vars

(***************************************************************************)
(* C22.  A start() or stop() that reports failure does not keep start_all, *)
(* stop_all or check_health from processing the remaining sensors: every   *)
(* entry that was to be started is running already or has had its start()  *)
(* call, every adapter whose call succeeded has changed state, and only    *)
(* the adapters whose call failed are left as they were.                   *)
(***************************************************************************)
\* the entry's adapter was running or has been given a start() call
Handled(e) ==
    IsRunning(running, e.sensor) \/ \E c \in startCalls' : c.sensor = e.sensor

\* the adapters the start() calls of this step have brought up
Started == {c.sensor : c \in {d \in startCalls' : d.ok}}

C22_FailuresContained ==
    [][/\ lastOp' = "start_all" =>
            /\ \A e \in Entries(registry) : Handled(e)
            /\ running' = running \cup Started
       /\ lastOp' = "check_health" =>
            /\ \A e \in Entries(registry) :
                    e.sensor_id \in desired => Handled(e)
            /\ running' = running \cup Started
       /\ \A oks \in SUBSET Adapters :
            StopAll(oks) =>
                running' = running \
                    {e.sensor : e \in {d \in Entries(registry) :
                                          d.sensor \in oks}}
      ]_vars

\* start_all has run over two entries: the start() of the first failed and
\* the second adapter was started all the same
C22_Witness ==
    /\ lastOp = "start_all"
    /\ Len(registry) >= 2
    /\ \E c \in startCalls : c.sensor = registry[1].sensor /\ ~c.ok
    /\ \E c \in startCalls : c.sensor = registry[2].sensor /\ c.ok
    /\ IsRunning(running, registry[2].sensor)
    /\ ~IsRunning(running, registry[1].sensor)

(***************************************************************************)
(* C23.  Both clients send connection_init as the first message of a       *)
(* connection: a websocket that is open has had it, and nothing is sent    *)
(* before it.  subscribe is first sent in the step that handles a          *)
(* connection_ack received during the handshake, and in no other step.     *)
(* When connection_error is handled during the handshake the client        *)
(* raises to its caller and no subscribe is sent on that connection:       *)
(* once a connection has failed, ended or been given up, nothing more is   *)
(* sent on it.                                                             *)
(***************************************************************************)
\* the message type has been sent on the connection
HasSent(sent, type) == \E i \in 1..Len(sent) : sent[i] = type

\* the step raises an error to the caller of the client: at once, or (the
\* dashboard client) on the way out of `async with websockets.connect`;
\* the worker, when it is being stopped, returns on the error it is given
RaisesToCaller ==
    \/ cPc' = "failed"
    \/ cExit' = "raise"
    \/ cKind = "worker" /\ cStop # "clear" /\ cPc' = "stopped"

C23_HandshakeOrder ==
    [][/\ cSent' # <<>> => cSent'[1] = "connection_init"
       /\ cOpen' => cSent' # <<>>
       /\ (HasSent(cSent', "subscribe") /\ ~HasSent(cSent, "subscribe")) =>
                \E id \in MsgIds :
                    HandshakeReceive([type |-> "connection_ack", id |-> id])
       /\ \A msg \in Messages :
            (msg.type = "connection_error" /\ HandshakeReceive(msg)) =>
                (RaisesToCaller /\ ~HasSent(cSent', "subscribe"))
       /\ (cPc \in {"failed", "done", "cancelled", "stopped"} \/ cExit # "none")
                => (cSent' = cSent \/ cSent' = <<>>)
      ]_vars

\* the command-line client has given up its handshake on connection_error,
\* which came after a message it passed over
C23_Witness ==
    /\ cKind = "cli"
    /\ cPc = "failed"
    /\ cLast.type = "connection_error"
    /\ cSent = <<"connection_init">>
    /\ cPings > 0

(***************************************************************************)
(* C24.  Every ping the server sends on a connection, before               *)
(* connection_ack or during the subscription, is answered by the client    *)
(* with a pong: the client has sent as many pongs as it has received       *)
(* pings.                                                                  *)
(***************************************************************************)
\* how many messages of the type have been sent
CountSent(sent, type) == Cardinality({i \in 1..Len(sent) : sent[i] = type})

C24_PingAnswered == CountSent(cSent, "pong") = cPings

(***************************************************************************)
(* C25.  A message whose type is not one of the protocol's is ignored,     *)
(* during the handshake and during a subscription: nothing is yielded,     *)
(* nothing is raised, nothing is sent, and the client stays where it was,  *)
(* the time its handshake has waited included.                             *)
(***************************************************************************)
C25_UnknownIgnored ==
    [][\A msg \in Messages :
          (/\ msg.type \notin KnownTypes
           /\ HandshakeReceive(msg) \/ SubscriptionReceive(msg))
          => UNCHANGED <<cKind, cPc, cOpen, cSent, cYielded, cPings, cExit,
                         cStop, cWaited>>
      ]_vars

(***************************************************************************)
(* C26.  connection_error during the handshake and error during the        *)
(* subscription are raised to the caller: the client ends failed, having   *)
(* yielded nothing for the message, with its websocket closed; complete    *)
(* ends the stream without an error, the websocket closed as well.  The    *)
(* step that handles the message raises at once with the websocket closed  *)
(* or leaves the client awaiting the close, and the step that ends the     *)
(* wait closes the websocket and hands the outcome to the caller.          *)
(***************************************************************************)
\* the stream has ended for the caller without an error: the caller is
\* done, or (the worker) has returned or is connecting again
EndsWithoutError ==
    \/ cPc' = "done"
    \/ cKind = "worker" /\ cPc' \in {"stopped", "connecting"}

C26_ErrorsSurfaceAndClose ==
    [][/\ \A msg \in Messages :
            (HandshakeReceive(msg) /\ msg.type = "connection_error") =>
                /\ RaisesToCaller
                /\ cYielded' = cYielded
                /\ cExit' = "raise" \/ ~cOpen'
       /\ (SubscriptionReceive([type |-> "error", id |-> "op"])) =>
                (cExit' = "raise" /\ cYielded' = cYielded)
       /\ (SubscriptionReceive([type |-> "complete", id |-> "op"])) =>
                (cExit' = "break" /\ cYielded' = cYielded)
       /\ (cExit = "raise" /\ cExit' # "raise") =>
                /\ RaisesToCaller
                /\ cYielded' = cYielded
                /\ ~cOpen'
       /\ (cExit = "break" /\ cExit' # "break") =>
                /\ EndsWithoutError
                /\ cPc' = "connecting" \/ cYielded' = cYielded
                /\ ~cOpen'
       /\ (cExit \in {"raise", "break"}) =>
                (cPc' = cPc \/ cExit' # cExit) /\ (cExit' = cExit => cYielded' = cYielded)
       /\ (cPc' = "failed" /\ cPc = "subscribed") => cExit = "raise"
      ]_vars

(***************************************************************************)
(* C27.  create_sensor raises and leaves the registry as it was when the   *)
(* sensor type is empty or has no factory, when the config is not a dict   *)
(* (None standing for no config), or when the adapter's initialize()       *)
(* fails; such a call never returns normally.                              *)
(***************************************************************************)
\* the registration is one the claim wants rejected
Malformed(sensor_type, config, initOk) ==
    \/ sensor_type = ""
    \/ ~InFactory(NormalizedType(sensor_type))
    \/ ~(config = PyNone \/ IsDict(config))
    \/ ~initOk

C27_MalformedRejected ==
    [][\A sensor_type \in SensorTypes, a \in Adapters, sensor_id \in SensorIds,
          config \in Configs, initOk \in BOOLEAN :
            (/\ CreateSensor(sensor_type, a, sensor_id, config, initOk)
             /\ Malformed(sensor_type, config, initOk))
            => (registry' = registry /\ lastOp' = "create_sensor_raised")
      ]_vars

(***************************************************************************)
(* C28.  toggleSensor and bulkAction return a start() or stop() failure    *)
(* of an adapter as a result whose status code is outside 200..299 and     *)
(* whose error stack names start_failed or stop_failed; for an id that is  *)
(* not registered they return a not-found result, no event is published    *)
(* for that id, and when the request names no registered id no adapter     *)
(* changes and nothing is published.                                       *)
(***************************************************************************)
\* the error stack has an entry of the kind
HasError(result, kind) ==
    \E i \in 1..Len(result.error_stack) : result.error_stack[i][1] = kind

Is2xx(status_code) == status_code >= 200 /\ status_code <= 299

\* the result reports the failure of a start() or stop() call
ReportsFailure(result) ==
    /\ ~Is2xx(result.status_code)
    /\ HasError(result, "start_failed") \/ HasError(result, "stop_failed")

\* an event for the id is among those published
PublishedFor(events, id) == \E i \in 1..Len(events) : events[i].sensor_id = id

C28_FailuresReturned ==
    [][/\ \A id \in ResolvedIds, enable \in Enables, ok \in BOOLEAN :
            (lastOp' = "toggle" /\ ToggleSensor(id, enable, ok)) =>
                /\ (Registered(registry, id) /\ ~ok) => ReportsFailure(reply')
                /\ ~Registered(registry, id) =>
                        /\ reply'.status_code = 404
                        /\ HasError(reply', "sensor_not_found")
                        /\ running' = running
                        /\ published' = <<>>
       /\ \A ids \in IdLists, enable \in Enables, oks \in SUBSET Adapters :
            (lastOp' = "bulk" /\ BulkAction(ids, enable, oks)) =>
                /\ (\E i \in 1..Len(ids) :
                        /\ Registered(registry, ids[i])
                        /\ GetSensor(registry, ids[i]) \notin oks)
                    => ReportsFailure(reply')
                /\ \A i \in 1..Len(ids) :
                        ~Registered(registry, ids[i]) =>
                            /\ HasError(reply', "sensor_not_found")
                            /\ ~PublishedFor(published', ids[i])
                /\ (\A i \in 1..Len(ids) : ~Registered(registry, ids[i])) =>
                        (running' = running /\ published' = <<>>)
      ]_vars

(***************************************************************************)
(* C29.  In every partition the committed rows, in the order they were     *)
(* inserted, are a subsequence of the records of the envelopes enqueued    *)
(* for that partition, in enqueue order: no row is committed before a row  *)
(* whose envelope was enqueued earlier, neither in an earlier transaction  *)
(* nor earlier within a transaction.                                       *)
(***************************************************************************)
\* the records of the envelopes enqueued so far, in enqueue order
RECURSIVE RecordsEnqueued(_, _)
RecordsEnqueued(i, done) ==
    IF i > Len(history) THEN done
    ELSE RecordsEnqueued(i + 1,
                         Append(done, PrepareRecord(Enqueued(i), Now, PyNone)))

\* rows[i..] can be matched, in order, to elements of records[j..]
RECURSIVE IsSubsequence(_, _, _, _)
IsSubsequence(rows, i, records, j) ==
    IF i > Len(rows) THEN TRUE
    ELSE IF j > Len(records) THEN FALSE
    ELSE IF rows[i] = records[j]
    THEN IsSubsequence(rows, i + 1, records, j + 1)
    ELSE IsSubsequence(rows, i, records, j + 1)

C29_CommitOrder ==
    \A path \in DOMAIN store :
        IsSubsequence(store[path], 1,
                      SelectSeq(RecordsEnqueued(1, <<>>),
                                LAMBDA r : ResolveMonthDbPath(r.timestamp) = path),
                      1)

\* three envelopes of one partition have been committed, which takes two
\* transactions at least, one of them with two rows
C29_Witness ==
    \E path \in DOMAIN store :
        /\ Len(store[path]) >= 3
        /\ store[path][1].id # store[path][3].id

(***************************************************************************)
(* C30.  A partition is written by the gate's writer task only, through    *)
(* the connection cached for its path: rows are added to a partition only  *)
(* in a step of the writer task that leaves the path's connection in the   *)
(* cache, and a partition's database is created only by the writer task,   *)
(* in the _get_connection call that goes on to cache the connection;       *)
(* append and append_many leave a running writer task as it is; a          *)
(* save_event call made off the event loop writes nothing, opens no        *)
(* connection and leaves the writer task and its queue as they are; and a  *)
(* read works on connections of its own: none of its steps changes the     *)
(* store, the cached connections or the writer, and when it returns or     *)
(* raises it has no partition left to open.                                *)
(***************************************************************************)
\* the rows of the partition, <<>> when its database does not exist
RowsOf(st, path) == IF path \in DOMAIN st THEN st[path] ELSE <<>>

\* a step of read_by_time_range or of its thread
ReadStep ==
    \/ \E s \in ReadTimes, e \in ReadTimes : ReadByTimeRange(s, e)
    \/ ReadExists
    \/ ReadSelect
    \/ ReadDone
    \/ ReadReturn

StartsOn(calls, a) == Cardinality({c \in calls : c.sensor = a})

\* a has an entry whose id is desired, and is not running
DueForRestart(reg, des, run, a) ==
    /\ ~IsRunning(run, a)
    /\ \E i \in 1..Len(reg) : reg[i].sensor = a /\ reg[i].sensor_id \in des

C32_HealthStartsOnce ==
    [][lastOp' = "check_health" =>
          /\ \A a \in Adapters :
                StartsOn(startCalls', a) =
                    IF DueForRestart(registry, desired, running, a)
                    THEN 1 ELSE 0
          /\ running \subseteq running'
          /\ desired' = desired
      ]_vars

(***************************************************************************)
(* C33.  The registry binds each sensor id to at most one adapter.         *)
(* Registering a different adapter under an id that is present raises and  *)
(* leaves the registry as it was; registering the adapter an id is bound   *)
(* to changes nothing and does not raise; unregistering an id that is not  *)
(* present returns None and changes nothing; unregistering one that is     *)
(* present returns its adapter and removes that binding only.              *)
(***************************************************************************)
\* the id register_sensor(a, sensor_id) binds
ResolvedId(a, sensor_id) == IF sensor_id # "" THEN sensor_id ELSE NameOf(a)

\* the adapters bound to id
BoundTo(reg, id) == {reg[i].sensor : i \in {j \in 1..Len(reg) : reg[j].sensor_id = id}}

C33_RegistryBindsOnce ==
    [][/\ \A id \in ResolvedIds :
            Cardinality({i \in 1..Len(registry') : registry'[i].sensor_id = id}) <= 1
       /\ \A a \in Adapters, sensor_id \in SensorIds :
            (lastOp' \in {"register", "register_raised"} /\ RegisterSensor(a, sensor_id)) =>
                LET id == ResolvedId(a, sensor_id)
                IN /\ (lastOp' = "register_raised") =
                        (BoundTo(registry, id) \notin {{}, {a}})
                   /\ BoundTo(registry, id) # {} => registry' = registry
                   /\ BoundTo(registry, id) = {} =>
                        /\ BoundTo(registry', id) = {a}
                        /\ \A other \in ResolvedIds \ {id} :
                              BoundTo(registry', other) = BoundTo(registry, other)
       /\ \A id \in ResolvedIds :
            (lastOp' = "unregister" /\ UnregisterSensor(id)) =>
                /\ BoundTo(registry, id) = {} =>
                        (UnregisterReturn(registry, id) = "none" /\ registry' = registry)
                /\ BoundTo(registry, id) # {} =>
                        /\ BoundTo(registry, id) = {UnregisterReturn(registry, id)}
                        /\ BoundTo(registry', id) = {}
                /\ \A other \in ResolvedIds \ {id} :
                        BoundTo(registry', other) = BoundTo(registry, other)
      ]_vars

\* a register_sensor call has raised on an id bound to another adapter, and
\* the binding is still there
C33_Witness ==
    /\ lastOp = "register_raised"
    /\ BoundTo(registry, "s") = {"p"}
    /\ Len(registry) = 2

(***************************************************************************)
(* C34.  A flush() that has to wait returns, and so does a shutdown(), in  *)
(* every execution in which the producers stop: the appends of the model   *)
(* are bounded and the writer, the timeouts and the resumption of          *)
(* shutdown() are scheduled fairly.                                        *)
(***************************************************************************)
C34_FlushReturns ==
    /\ (flushPc = "waiting") ~> (flushPc = "returned")
    /\ (shutdownPc \in {"flushing", "cancelling", "closing"})
            ~> (shutdownPc = "returned")

(***************************************************************************)
(* C35.  An envelope accepted by an append that runs while shutdown() is   *)
(* suspended is not lost: when shutdown() returns, the writer it cancels   *)
(* holds no batch in memory, and no envelope is left in the queue unless   *)
(* a writer task is alive to take it.                                      *)
(***************************************************************************)
C35_LateAppendKept ==
    [][ShutdownReturns =>
          /\ batch = <<>>
          /\ queue' # <<>> => writer' \in {"waiting", "batching"}
      ]_vars

(***************************************************************************)
(* C36.  A failed commit does not poison its partition: a batch that       *)
(* would commit on a gate with no cached connection (its records are       *)
(* valid against the committed rows) also commits on the gate that has     *)
(* seen a batch fail, and stores the same rows, none of the failed batch   *)
(* among them.                                                             *)
(***************************************************************************)
\* this step is the end of a _write_batch call, returning or raising
CommitEnds == writer = "batching" /\ writer' \in {"waiting", "failed"}

\* what the batch in hand gives on connections that are newly opened
OnFreshConnections == WriteBatch(batch, envs, Now, uuid, store, <<>>, blobs)

C36_FailureDoesNotPoison ==
    [][(CommitEnds /\ OnFreshConnections.exc = "none") =>
          /\ writer' = "waiting"
          /\ store' = OnFreshConnections.store
      ]_vars

(***************************************************************************)
(* C37.  A toggleSensor on a known sensor publishes one status event, a    *)
(* bulkAction one per known id of its list, in the order of the list, each *)
(* with the running state of the adapter after its action; every viewer    *)
(* in the subscriber list has received or has waiting, once each and in    *)
(* the order of publication, exactly the events published since it joined; *)
(* a viewer whose subscription has ended is not in the list, has nothing   *)
(* waiting and receives nothing.                                           *)
(***************************************************************************)
\* "running" / "stopped" as is_running() gives it
StatusText(isRunning) == IF isRunning THEN "running" ELSE "stopped"

\* the events published since v joined the list
PublishedSince(v) == SubSeq(statusLog', subSince'[v] + 1, Len(statusLog'))

C37_StatusDelivered ==
    [][/\ lastOp' = "toggle" =>
            Len(published') = IF reply'.status_code = 404 THEN 0 ELSE 1
       /\ lastOp' \in {"toggle", "bulk"} =>
            /\ Len(published') = Len(reply'.sensors)
            /\ \A i \in 1..Len(published') :
                  /\ published'[i].sensor_id = reply'.sensors[i].id
                  /\ Registered(registry, published'[i].sensor_id)
                  /\ (\A j \in (i + 1)..Len(published') :
                          published'[j].sensor_id # published'[i].sensor_id)
                        => published'[i].status =
                              StatusText(GetSensor(registry,
                                    published'[i].sensor_id) \in running')
       /\ (lastOp' \in {"toggle", "bulk"} /\ statusSubs # <<>>) =>
            statusLog' = statusLog \o published'
       /\ \A v \in Viewers :
            IF Subscribed(statusSubs', v)
            THEN /\ subGot'[v] \o subQueue'[v] = PublishedSince(v)
                 /\ Cardinality({i \in 1..Len(statusSubs') :
                                    statusSubs'[i] = v}) = 1
            ELSE subQueue'[v] = <<>> /\ subGot'[v] = <<>>
      ]_vars

\* two viewers, the second joined after the first event: the first has
\* received two events, the second has the later one waiting
C37_Witness ==
    /\ statusSubs = <<"v1", "v2">>
    /\ Len(statusLog) = 2
    /\ subGot["v1"] = statusLog
    /\ subSince["v2"] = 1
    /\ subQueue["v2"] = <<statusLog[2]>>
    /\ statusLog[1].status # statusLog[2].status

(***************************************************************************)
(* C38.  The log feed is a broadcast: a payload that logStream yields to   *)
(* one viewer is not lost to another viewer that was subscribed when it    *)
(* was published and still is.  A payload taken out of log_broadcast is    *)
(* yielded to the viewer that took it and to nobody else.                  *)
(***************************************************************************)
C38_LogBroadcast ==
    [][logTaken'.to # "none" =>
          \A w \in logTaken'.audience \cap logSubs' : w = logTaken'.to
      ]_vars

(***************************************************************************)
(* C39.  The pool never has more than max_size connections alive, in use   *)
(* and idle together, and an acquire() is never left waiting for a         *)
(* connection when none is in use and none is being created: every         *)
(* connection that was in use has been released, yet no connection is idle *)
(* for the waiting thread to take, so it waits for ever.                   *)
(***************************************************************************)
\* a thread waits in self._pool.get() and nothing can be put any more
PoolStuck ==
    /\ \E t \in Threads : pPc[t] = "blocked"
    /\ \A t \in Threads : pPc[t] \in {"blocked", "idle"}
    /\ pIdle = <<>>

C39_PoolBoundedAndLive ==
    /\ Cardinality(pAlive) <= PoolMaxSize
    /\ ~PoolStuck

\* C40: a blob file exists on disk only for a committed record; when the
\* commit of a batch fails, no blob written for that batch's envelopes is
\* left behind without a record pointing to it.  As a state predicate: every
\* file under the blob directories is the blob_path of a committed row.
C40_NoOrphanBlob ==
    \A path \in DOMAIN blobs :
        \E r \in AllRows(store) : r.blob_path = path

====
